---- MODULE Spec2Model ----
(***************************************************************************)
(* Model of the cart-item-add flow of the LoveCakes backend: the stored    *)
(* procedure functional.spCartItemAdd over the tables product, size,       *)
(* productFlavor, productSize, cart and cartItem.                          *)
(*                                                                         *)
(* Every connection runs the procedure statement by statement inside its   *)
(* own transaction (BEGIN TRAN .. COMMIT TRAN / ROLLBACK TRAN).  Rows a    *)
(* transaction has written and not yet committed are exclusively locked:   *)
(* a statement of another connection that has to read or write such a row  *)
(* waits (READ COMMITTED).                                                 *)
(*                                                                         *)
(* A nullable value is a set with at most one element: {} is NULL, {v} is  *)
(* the value v.                                                            *)
(***************************************************************************)
EXTENDS Integers, FiniteSets, Sequences, TLC

\* ------------------------------------------------------------------ bounds

\* Calls of spCartItemAdd made in one behaviour of overlapping connections.
MaxCalls == 3

\* Calls of spCartItemAdd made in one behaviour of calls that do not overlap.
MaxSeqCalls == 2

\* Calls of spCartItemAdd made in one behaviour of connections with a session
\* each.
MaxSessionCalls == 3

\* Catalog changes made in one behaviour.
MaxCatalogChanges == 2

\* ------------------------------------------------------- program constants

\* THROW 51000: the number of every domain error of the procedure.
DomainError == 51000

\* @quantity > 10, @newQuantity > 10.
MaxQuantity == 10

\* SQL Server's error for NULL written to a NOT NULL column.
CannotInsertNull == 515

\* ------------------------------------------------------------- null values

NULL == {}

IsNull(v) == v = {}

Val(v) == CHOOSE x \in v : TRUE

\* a + b and a * b of SQL: NULL when an operand is NULL.
Plus(a, b) == {x + y : x \in a, y \in b}

Times(a, b) == {x * y : x \in a, y \in b}

COALESCE(a, b) == IF a # {} THEN a ELSE b

\* ------------------------------------------------------------------ inputs

\* The connections that call the procedure.
Conns == {"c1", "c2"}

\* The connection of the runs in which calls do not overlap.
SeqConn == "c1"

Sessions == {"s1", "s2"}

\* idProduct: 1 regular, 2 on promotion, 3 soft-deleted, 4 available = 0,
\* 5 stock = 0, 6 no row.
ProductIds == 1..6

\* idFlavor: 1 enabled for the product, 2 disabled, 3 not associated.
FlavorIds == 1..3

\* idSize: 1 enabled, 2 disabled, 3 not associated, 4 enabled for the product
\* with its size row in another account.
SizeIds == 1..4

Quantities == {0, 2, 3, 4, 5, 8, 11}

Observations == {NULL, {"no nuts"}, {"no sugar"}}

\* The parameters of a call of spCartItemAdd; idAccount is the idAccount of
\* the request's credential.
AllRequests ==
  [idAccount : {1}, sessionId : Sessions \cup {""}, idProduct : ProductIds,
   idFlavor : FlavorIds, idSize : SizeIds, quantity : Quantities,
   observations : Observations]

\* The calls of the runs in which connections overlap: every session for two
\* products that pass the validations, with quantities in and out of range.
Requests ==
  {r \in AllRequests :
     /\ r.sessionId \in Sessions
     /\ r.idProduct \in {1, 2}
     /\ r.idFlavor = 1
     /\ r.idSize = 1
     /\ r.observations = NULL
     /\ r.quantity \in {0, 2, 8, 11}}

\* The calls of the runs in which every connection has its session: two
\* products without observations, quantities in and out of range.
SessionRequests ==
  {r \in AllRequests :
     /\ r.sessionId \in Sessions
     /\ r.idProduct \in {1, 2}
     /\ r.idFlavor = 1
     /\ r.idSize = 1
     /\ r.observations = NULL
     /\ r.quantity \in {0, 2, 8}}

\* The calls of the runs in which the catalog changes.
CatalogRequests ==
  {r \in AllRequests :
     /\ r.sessionId = "s1"
     /\ r.idProduct \in {1, 2}
     /\ r.idFlavor = 1
     /\ r.idSize \in {1, 4}
     /\ r.observations \in {NULL, {"no nuts"}}
     /\ r.quantity \in {2, 8}}

\* The calls of the runs in which calls do not overlap: for one session every
\* product, flavor and size with a quantity in range, one below and one above;
\* for every session every quantity, with and without observations, with the
\* products, flavor and sizes that pass the validations; one call with other
\* observations.
SeqRequests ==
  {r \in AllRequests :
     \/ /\ r.sessionId = "s1"
        /\ r.quantity \in {0, 3, 11}
        /\ r.observations = NULL
     \/ /\ r.idProduct \in {1, 2}
        /\ r.idFlavor = 1
        /\ r.idSize \in {1, 4}
        /\ r.sessionId = "" => (r.idProduct = 1 /\ r.idSize = 1 /\ r.quantity = 3)
        /\ r.observations = {"no sugar"} =>
             (r.sessionId = "s1" /\ r.idProduct = 1 /\ r.idSize = 1 /\ r.quantity = 2)}

VARIABLES
  product,          \* table functional.product
  size,             \* table functional.size
  productFlavor,    \* table functional.productFlavor
  productSize,      \* table functional.productSize
  cart,             \* table functional.cart
  cartItem,         \* table functional.cartItem
  identCart,        \* last IDENTITY value of cart.idCart
  identCartItem,    \* last IDENTITY value of cartItem.idCartItem
  pc,               \* per connection: the statement it is at
  arg,              \* per connection: the parameters of its call
  idCart,           \* per connection: @idCart
  unitPrice,        \* per connection: @unitPrice
  totalPrice,       \* per connection: @totalPrice
  idCartItem,       \* per connection: @idCartItem
  existingQuantity, \* per connection: @existingQuantity
  undo,             \* per connection: what ROLLBACK TRAN has to undo
  ret,              \* per connection: what its last call returned
  before,           \* per connection: cart and cartItem when its call began
  added,            \* per tuple: the quantities of the calls that succeeded
  calls,            \* calls made
  changes,          \* catalog changes made
  confectioner,     \* table functional.confectioner
  productImage,     \* table functional.productImage
  flavor,           \* table functional.flavor
  review,           \* table functional.review
  routine,          \* dbRequest: the procedure executed outside spCartItemAdd
  parameters,       \* dbRequest: its parameters
  result,           \* dbRequest: its record sets or the error it threw
  req,              \* the HTTP request in the handler
  res,              \* the HTTP response sent for it
  nodeEnv           \* process.env.NODE_ENV

catalog ==
  <<product, size, productFlavor, productSize, confectioner, productImage,
    flavor, review>>

db == <<routine, parameters, result>>

http == <<req, res, nodeEnv>>

tables == <<cart, cartItem, identCart, identCartItem>>

locals == <<idCart, unitPrice, totalPrice, idCartItem, existingQuantity>>

vars == <<product, size, productFlavor, productSize, cart, cartItem, identCart,
          identCartItem, pc, arg, idCart, unitPrice, totalPrice, idCartItem,
          existingQuantity, undo, ret, before, added, calls, changes,
          confectioner, productImage, flavor, review, routine, parameters,
          result, req, res, nodeEnv>>

\* ----------------------------------------------------------------- catalog

\* A text is the sequence of its characters.
Cake == <<"c", "a", "k", "e">>

Bolo == <<"b", "o", "l", "o">>

Torta == <<"t", "o", "r", "t", "a">>

\* A row of functional.product of account 1: NUMERIC(3, 1) averageRating in
\* tenths, dateCreated as the order of creation.
Product(id, cat, cnf, nm, base, promo, isPromo, avail, stk, rating, sales, del) ==
  [idProduct |-> id, idAccount |-> 1, idCategory |-> cat, idConfectioner |-> cnf,
   name |-> nm, description |-> <<"d">>, ingredients |-> <<"i">>,
   basePrice |-> base, promotionalPrice |-> promo, isPromotion |-> isPromo,
   available |-> avail, stock |-> stk, averageRating |-> rating,
   totalReviews |-> sales, totalSales |-> sales, dateCreated |-> id,
   deleted |-> del]

InitProduct ==
  {Product(1, 1, 1, Bolo, 20, NULL, FALSE, TRUE, 5, 40, 7, FALSE),
   Product(2, 1, 1, Torta, 20, {15}, TRUE, TRUE, 5, 45, 3, FALSE),
   Product(3, 1, 1, Bolo, 20, NULL, FALSE, TRUE, 5, 50, 9, TRUE),
   Product(4, 1, 2, Bolo, 20, NULL, FALSE, FALSE, 5, 50, 9, FALSE),
   Product(5, 2, 1, Torta, 20, NULL, FALSE, TRUE, 0, 50, 9, FALSE)}

InitConfectioner ==
  {[idConfectioner |-> 1, idAccount |-> 1, name |-> <<"a", "n", "a">>, deleted |-> FALSE],
   [idConfectioner |-> 2, idAccount |-> 1, name |-> <<"b", "i", "a">>, deleted |-> FALSE],
   [idConfectioner |-> 3, idAccount |-> 1, name |-> <<"c", "e", "u">>, deleted |-> TRUE],
   [idConfectioner |-> 4, idAccount |-> 2, name |-> <<"d", "u", "o">>, deleted |-> FALSE]}

InitProductImage ==
  {[idProductImage |-> 1, idAccount |-> 1, idProduct |-> 1, imageUrl |-> "1a.png",
    isPrimary |-> TRUE, displayOrder |-> 1],
   [idProductImage |-> 2, idAccount |-> 1, idProduct |-> 1, imageUrl |-> "1b.png",
    isPrimary |-> FALSE, displayOrder |-> 0],
   [idProductImage |-> 3, idAccount |-> 1, idProduct |-> 2, imageUrl |-> "2a.png",
    isPrimary |-> TRUE, displayOrder |-> 0]}

InitSize ==
  {[idSize |-> 1, idAccount |-> 1, servings |-> 10, priceModifier |-> 5,
    deleted |-> FALSE],
   [idSize |-> 2, idAccount |-> 1, servings |-> 20, priceModifier |-> 0,
    deleted |-> FALSE],
   [idSize |-> 3, idAccount |-> 1, servings |-> 20, priceModifier |-> 0,
    deleted |-> FALSE],
   [idSize |-> 4, idAccount |-> 2, servings |-> 10, priceModifier |-> 0,
    deleted |-> FALSE]}

\* A flavor name is its place in the alphabet.
InitFlavor ==
  {[idFlavor |-> 1, idAccount |-> 1, name |-> 2, deleted |-> FALSE],
   [idFlavor |-> 2, idAccount |-> 1, name |-> 1, deleted |-> FALSE],
   [idFlavor |-> 3, idAccount |-> 1, name |-> 3, deleted |-> FALSE]}

InitReview ==
  {[idReview |-> 1, idAccount |-> 1, idProduct |-> 1, rating |-> 5, dateCreated |-> 1,
    deleted |-> FALSE],
   [idReview |-> 2, idAccount |-> 1, idProduct |-> 1, rating |-> 4, dateCreated |-> 2,
    deleted |-> FALSE],
   [idReview |-> 3, idAccount |-> 1, idProduct |-> 1, rating |-> 1, dateCreated |-> 3,
    deleted |-> TRUE]}

InitProductFlavor ==
  {[idAccount |-> 1, idProduct |-> p, idFlavor |-> f, available |-> f # 2] :
     p \in 1..5, f \in 1..2}

InitProductSize ==
  {[idAccount |-> 1, idProduct |-> p, idSize |-> s, available |-> s # 2] :
     p \in 1..5, s \in {1, 2, 4}}

\* ------------------------------------------------------------- transactions

NoUndo == [cartIns |-> {}, itemIns |-> {}, itemOld |-> {}]

NoReturn == [number |-> 0, message |-> "", row |-> NULL]

\* The parameters of a connection that is in no call.
NoRequest ==
  [idAccount |-> 0, sessionId |-> "", idProduct |-> 0, idFlavor |-> 0,
   idSize |-> 0, quantity |-> 0, observations |-> NULL]

\* dbRequest has executed nothing.
NoResult == [thrown |-> FALSE, number |-> NULL, message |-> "", recordsets |-> <<>>]

\* No request is in a handler; nothing has been sent.
NoErrorObject ==
  [statusCode |-> NULL, number |-> NULL, message |-> "", stack |-> NULL]

NoHttpRequest ==
  [handler |-> "", stage |-> "idle", input |-> <<>>, issues |-> {},
   params |-> <<>>, error |-> NoErrorObject, caught |-> NoErrorObject,
   calls |-> 0]

NoResponse == [status |-> 0, message |-> "", details |-> NULL, data |-> NULL]

NoTables == [cart |-> {}, cartItem |-> {}, identCart |-> 0, identCartItem |-> 0]

\* The rows another connection has written and not committed.
LockedCarts(c) == UNION {undo[d].cartIns : d \in Conns \ {c}}

LockedItems(c) ==
  UNION {undo[d].itemIns \cup {o.idCartItem : o \in undo[d].itemOld} :
           d \in Conns \ {c}}

\* A rollback that leaves the cart row of the call behind.
RolledBackNothing(c) == cart

\* ROLLBACK TRAN: the tables without the writes of connection c.
RolledBackCart(c) == {row \in cart : row.idCart \notin undo[c].cartIns}

RolledBackCartItem(c) ==
  {row \in cartItem :
     /\ row.idCartItem \notin undo[c].itemIns
     /\ row.idCartItem \notin {o.idCartItem : o \in undo[c].itemOld}}
  \cup undo[c].itemOld

\* The committed rows: what a connection outside every transaction reads.
CommittedCart == {row \in cart : \A c \in Conns : row.idCart \notin undo[c].cartIns}

CommittedCartItem ==
  {row \in cartItem :
     \A c \in Conns :
       /\ row.idCartItem \notin undo[c].itemIns
       /\ row.idCartItem \notin {o.idCartItem : o \in undo[c].itemOld}}
  \cup UNION {undo[c].itemOld : c \in Conns}

\* The committed rows and the identity values: what a call finds when it begins.
Tables ==
  [cart |-> CommittedCart, cartItem |-> CommittedCartItem,
   identCart |-> identCart, identCartItem |-> identCartItem]

\* ---------------------------------------------------------- spCartItemAdd

NoError == ""

\* Parameter validation without the upper limit of @quantity.
ParamErrorNoMaximum(r) ==
  IF r.sessionId = "" THEN "sessionIdRequired"
  ELSE IF r.quantity < 1 THEN "quantityMustBeGreaterThanZero"
  ELSE NoError

\* Parameter validation.  The INT parameters of a call are never NULL here.
ParamError(r) ==
  IF r.sessionId = "" THEN "sessionIdRequired"
  ELSE IF r.quantity < 1 THEN "quantityMustBeGreaterThanZero"
  ELSE IF r.quantity > MaxQuantity THEN "quantityExceedsMaximum"
  ELSE NoError

ProductExists(r) ==
  \E prd \in product :
    /\ prd.idAccount = r.idAccount
    /\ prd.idProduct = r.idProduct
    /\ prd.deleted = FALSE

\* The availability check without the stock.
ProductAvailableAnyStock(r) ==
  \E prd \in product :
    /\ prd.idAccount = r.idAccount
    /\ prd.idProduct = r.idProduct
    /\ prd.available = TRUE
    /\ prd.deleted = FALSE

ProductAvailable(r) ==
  \E prd \in product :
    /\ prd.idAccount = r.idAccount
    /\ prd.idProduct = r.idProduct
    /\ prd.available = TRUE
    /\ prd.stock > 0
    /\ prd.deleted = FALSE

FlavorAvailable(r) ==
  \E prdFlv \in productFlavor :
    /\ prdFlv.idAccount = r.idAccount
    /\ prdFlv.idProduct = r.idProduct
    /\ prdFlv.idFlavor = r.idFlavor
    /\ prdFlv.available = TRUE

SizeAvailable(r) ==
  \E prdSiz \in productSize :
    /\ prdSiz.idAccount = r.idAccount
    /\ prdSiz.idProduct = r.idProduct
    /\ prdSiz.idSize = r.idSize
    /\ prdSiz.available = TRUE

\* The validations with the flavor checked before the product's availability.
ValidationErrorFlavorFirst(r) ==
  IF ParamError(r) # NoError THEN ParamError(r)
  ELSE IF ~ProductExists(r) THEN "productDoesntExist"
  ELSE IF ~FlavorAvailable(r) THEN "flavorNotAvailable"
  ELSE IF ~ProductAvailable(r) THEN "productNotAvailable"
  ELSE IF ~SizeAvailable(r) THEN "sizeNotAvailable"
  ELSE NoError

\* The message of the first THROW of the validations, NoError when none throws.
ValidationError(r) ==
  IF ParamError(r) # NoError THEN ParamError(r)
  ELSE IF ~ProductExists(r) THEN "productDoesntExist"
  ELSE IF ~ProductAvailable(r) THEN "productNotAvailable"
  ELSE IF ~FlavorAvailable(r) THEN "flavorNotAvailable"
  ELSE IF ~SizeAvailable(r) THEN "sizeNotAvailable"
  ELSE NoError

\* CATCH: ROLLBACK TRAN; THROW.  The call of connection c ends in the error.
Throw(c, number, message) ==
  /\ cart' = RolledBackCart(c)
  /\ cartItem' = RolledBackCartItem(c)
  /\ undo' = [undo EXCEPT ![c] = NoUndo]
  /\ ret' = [ret EXCEPT ![c] = [number |-> number, message |-> message, row |-> NULL]]
  /\ pc' = [pc EXCEPT ![c] = "done"]

\* BEGIN TRAN and the validations of a call with parameters r.
Begin(c, r) ==
  /\ pc[c] = "idle"
  /\ calls' = calls + 1
  /\ arg' = [arg EXCEPT ![c] = r]
  /\ before' = [before EXCEPT ![c] = Tables]
  /\ idCart' = [idCart EXCEPT ![c] = NULL]
  /\ unitPrice' = [unitPrice EXCEPT ![c] = NULL]
  /\ totalPrice' = [totalPrice EXCEPT ![c] = NULL]
  /\ idCartItem' = [idCartItem EXCEPT ![c] = NULL]
  /\ existingQuantity' = [existingQuantity EXCEPT ![c] = NULL]
  /\ IF ValidationError(r) # NoError
       THEN Throw(c, DomainError, ValidationError(r))
       ELSE /\ pc' = [pc EXCEPT ![c] = "selectCart"]
            /\ ret' = [ret EXCEPT ![c] = NoReturn]
            /\ UNCHANGED <<cart, cartItem, undo>>
  /\ UNCHANGED <<catalog, db, http, identCart, identCartItem, added, changes>>

\* The SELECT without the session: the carts of the account.
CartsOfAnySession(r) == {crt \in cart : crt.idAccount = r.idAccount}

\* SELECT @idCart = idCart FROM cart WHERE idAccount, sessionId.
CartsOf(r) ==
  {crt \in cart : crt.idAccount = r.idAccount /\ crt.sessionId = r.sessionId}

SelectCart(c) ==
  /\ pc[c] = "selectCart"
  /\ \A crt \in CartsOf(arg[c]) : crt.idCart \notin LockedCarts(c)
  /\ IF CartsOf(arg[c]) = {}
       THEN /\ pc' = [pc EXCEPT ![c] = "insertCart"]
            /\ UNCHANGED idCart
       ELSE /\ \E crt \in CartsOf(arg[c]) : idCart' = [idCart EXCEPT ![c] = {crt.idCart}]
            /\ pc' = [pc EXCEPT ![c] = "price"]
  /\ UNCHANGED <<catalog, db, http, tables, arg, unitPrice, totalPrice, idCartItem,
                 existingQuantity, undo, ret, before, added, calls, changes,
          confectioner, productImage, routine, parameters, result, req, res,
          nodeEnv>>

\* IF (@idCart IS NULL) INSERT INTO cart; SET @idCart = SCOPE_IDENTITY().
InsertCart(c) ==
  /\ pc[c] = "insertCart"
  /\ identCart' = identCart + 1
  /\ cart' = cart \cup {[idCart |-> identCart + 1, idAccount |-> arg[c].idAccount,
                         sessionId |-> arg[c].sessionId]}
  /\ undo' = [undo EXCEPT ![c].cartIns = @ \cup {identCart + 1}]
  /\ idCart' = [idCart EXCEPT ![c] = {identCart + 1}]
  /\ pc' = [pc EXCEPT ![c] = "price"]
  /\ UNCHANGED <<catalog, db, http, cartItem, identCartItem, arg, unitPrice, totalPrice,
                 idCartItem, existingQuantity, ret, before, added, calls, changes>>


\* The price without the size's modifier.
UnitPriceWithoutModifier(prd, siz) ==
  IF prd.isPromotion = TRUE THEN prd.promotionalPrice ELSE {prd.basePrice}

\* The price of product row prd in size row siz: the CASE of the SELECT.
UnitPriceOf(prd, siz) ==
  IF prd.isPromotion = TRUE
    THEN Plus(prd.promotionalPrice, {siz.priceModifier})
    ELSE Plus({prd.basePrice}, {siz.priceModifier})

\* FROM product JOIN size ON size.idAccount = product.idAccount WHERE ...
PriceRows(r) ==
  {pair \in product \X size :
     /\ pair[2].idAccount = pair[1].idAccount
     /\ pair[1].idAccount = r.idAccount
     /\ pair[1].idProduct = r.idProduct
     /\ pair[2].idSize = r.idSize}

\* SELECT @unitPrice = CASE ...; SET @totalPrice = @unitPrice * @quantity.
\* A SELECT that finds no row leaves @unitPrice NULL.
ComputePrice(c) ==
  /\ pc[c] = "price"
  /\ IF PriceRows(arg[c]) = {}
       THEN UNCHANGED <<unitPrice, totalPrice>>
       ELSE \E pair \in PriceRows(arg[c]) :
              /\ unitPrice' = [unitPrice EXCEPT ![c] = UnitPriceOf(pair[1], pair[2])]
              /\ totalPrice' = [totalPrice EXCEPT ![c] =
                                  Times(UnitPriceOf(pair[1], pair[2]), {arg[c].quantity})]
  /\ pc' = [pc EXCEPT ![c] = "selectItem"]
  /\ UNCHANGED <<catalog, db, http, tables, arg, idCart, idCartItem, existingQuantity,
                 undo, ret, before, added, calls, changes>>

\* FROM cartItem WHERE idAccount, idCart, idProduct, idFlavor, idSize.
ItemsOf(r, crt) ==
  {crtItm \in cartItem :
     /\ crtItm.idAccount = r.idAccount
     /\ crtItm.idCart \in crt
     /\ crtItm.idProduct = r.idProduct
     /\ crtItm.idFlavor = r.idFlavor
     /\ crtItm.idSize = r.idSize}

\* SELECT @idCartItem = idCartItem, @existingQuantity = quantity FROM cartItem.
\* With several matching rows the variables take the values of one of them.
SelectItem(c) ==
  /\ pc[c] = "selectItem"
  /\ \A crtItm \in ItemsOf(arg[c], idCart[c]) : crtItm.idCartItem \notin LockedItems(c)
  /\ IF ItemsOf(arg[c], idCart[c]) = {}
       THEN /\ pc' = [pc EXCEPT ![c] = "insertItem"]
            /\ UNCHANGED <<idCartItem, existingQuantity>>
       ELSE /\ \E crtItm \in ItemsOf(arg[c], idCart[c]) :
                 /\ idCartItem' = [idCartItem EXCEPT ![c] = {crtItm.idCartItem}]
                 /\ existingQuantity' = [existingQuantity EXCEPT ![c] = {crtItm.quantity}]
            /\ pc' = [pc EXCEPT ![c] = "merge"]
  /\ UNCHANGED <<catalog, db, http, tables, arg, idCart, unitPrice, totalPrice, undo, ret,
                 before, added, calls, changes>>

\* The limit off by one.
ExceedsMaximumOffByOne(newQuantity) == newQuantity > MaxQuantity + 1

\* IF (@newQuantity > 10)
ExceedsMaximum(newQuantity) == newQuantity > MaxQuantity

\* An UPDATE that leaves totalPrice as it was.
MergedKeepingTotal(crtItm, newQuantity, newTotalPrice, observations) ==
  [crtItm EXCEPT !.quantity = newQuantity,
                 !.observations = COALESCE(observations, crtItm.observations)]

\* An UPDATE that sets observations to the parameter, NULL or not.
MergedOverwriting(crtItm, newQuantity, newTotalPrice, observations) ==
  [crtItm EXCEPT !.quantity = newQuantity,
                 !.totalPrice = newTotalPrice,
                 !.observations = observations]

\* An UPDATE that also sets unitPrice to the price of the call.
MergedRepricing(crtItm, newQuantity, newTotalPrice, observations) ==
  [crtItm EXCEPT !.quantity = newQuantity,
                 !.unitPrice = newTotalPrice \div newQuantity,
                 !.totalPrice = newTotalPrice,
                 !.observations = COALESCE(observations, crtItm.observations)]

\* The row of the UPDATE: SET quantity, totalPrice, observations.
Merged(crtItm, newQuantity, newTotalPrice, observations) ==
  [crtItm EXCEPT !.quantity = newQuantity,
                 !.totalPrice = newTotalPrice,
                 !.observations = COALESCE(observations, crtItm.observations)]

\* @idCartItem IS NOT NULL: the limit on the merged quantity and the UPDATE.
Merge(c) ==
  /\ pc[c] = "merge"
  /\ LET newQuantity == Val(existingQuantity[c]) + arg[c].quantity
         newTotal == Times(unitPrice[c], {newQuantity})
     IN IF ExceedsMaximum(newQuantity)
          THEN /\ Throw(c, DomainError, "quantityExceedsMaximum")
               /\ UNCHANGED totalPrice
          ELSE /\ totalPrice' = [totalPrice EXCEPT ![c] = newTotal]
               /\ IF IsNull(newTotal)
                    THEN Throw(c, CannotInsertNull, "cannotInsertNull")
                    ELSE /\ Val(idCartItem[c]) \notin LockedItems(c)
                         /\ \E crtItm \in cartItem :
                              /\ crtItm.idCartItem = Val(idCartItem[c])
                              /\ cartItem' = (cartItem \ {crtItm}) \cup
                                   {Merged(crtItm, newQuantity, Val(newTotal),
                                           arg[c].observations)}
                              /\ undo' = [undo EXCEPT ![c].itemOld = @ \cup {crtItm}]
                         /\ pc' = [pc EXCEPT ![c] = "commit"]
                         /\ UNCHANGED <<cart, ret>>
  /\ UNCHANGED <<catalog, db, http, identCart, identCartItem, arg, idCart, unitPrice,
                 idCartItem, existingQuantity, before, added, calls, changes>>

\* @idCartItem IS NULL: INSERT INTO cartItem; SET @idCartItem = SCOPE_IDENTITY().
\* unitPrice and totalPrice are NOT NULL columns.
InsertItem(c) ==
  /\ pc[c] = "insertItem"
  /\ IF IsNull(unitPrice[c]) \/ IsNull(totalPrice[c])
       THEN /\ Throw(c, CannotInsertNull, "cannotInsertNull")
            /\ UNCHANGED <<identCartItem, idCartItem>>
       ELSE /\ identCartItem' = identCartItem + 1
            /\ cartItem' = cartItem \cup
                 {[idCartItem |-> identCartItem + 1,
                   idAccount |-> arg[c].idAccount,
                   idCart |-> Val(idCart[c]),
                   idProduct |-> arg[c].idProduct,
                   idFlavor |-> arg[c].idFlavor,
                   idSize |-> arg[c].idSize,
                   quantity |-> arg[c].quantity,
                   unitPrice |-> Val(unitPrice[c]),
                   totalPrice |-> Val(totalPrice[c]),
                   observations |-> arg[c].observations]}
            /\ undo' = [undo EXCEPT ![c].itemIns = @ \cup {identCartItem + 1}]
            /\ idCartItem' = [idCartItem EXCEPT ![c] = {identCartItem + 1}]
            /\ pc' = [pc EXCEPT ![c] = "commit"]
            /\ UNCHANGED <<cart, ret>>
  /\ UNCHANGED <<catalog, db, http, identCart, arg, idCart, unitPrice, totalPrice,
                 existingQuantity, before, added, calls, changes>>

\* The (tenant, session, product, flavor, size) tuple of a call.
TupleOf(r) == <<r.idAccount, r.sessionId, r.idProduct, r.idFlavor, r.idSize>>

\* A commit that takes the quantity of the call from the stock of the product.
CommitTakingStock(c) ==
  /\ pc[c] = "commit"
  /\ undo' = [undo EXCEPT ![c] = NoUndo]
  /\ added' = IF TupleOf(arg[c]) \in DOMAIN added
                THEN [added EXCEPT ![TupleOf(arg[c])] = @ + arg[c].quantity]
                ELSE added @@ (TupleOf(arg[c]) :> arg[c].quantity)
  /\ pc' = [pc EXCEPT ![c] = "result"]
  /\ product' = {IF prd.idProduct = arg[c].idProduct
                   THEN [prd EXCEPT !.stock = @ - arg[c].quantity]
                   ELSE prd : prd \in product}
  /\ UNCHANGED <<size, productFlavor, productSize, confectioner, productImage,
                 flavor, review, db, http, tables, arg, locals, ret, before, calls,
                 changes>>

\* COMMIT TRAN.
Commit(c) ==
  /\ pc[c] = "commit"
  /\ undo' = [undo EXCEPT ![c] = NoUndo]
  /\ added' = IF TupleOf(arg[c]) \in DOMAIN added
                THEN [added EXCEPT ![TupleOf(arg[c])] = @ + arg[c].quantity]
                ELSE added @@ (TupleOf(arg[c]) :> arg[c].quantity)
  /\ pc' = [pc EXCEPT ![c] = "result"]
  /\ UNCHANGED <<catalog, db, http, tables, arg, locals, ret, before, calls, changes>>

\* The output: SELECT ... FROM cartItem WHERE idCartItem = @idCartItem.
CartItemResult(crtItm) ==
  [idCartItem |-> crtItm.idCartItem, idCart |-> crtItm.idCart,
   quantity |-> crtItm.quantity, unitPrice |-> crtItm.unitPrice,
   totalPrice |-> crtItm.totalPrice]

SelectResult(c) ==
  /\ pc[c] = "result"
  /\ Val(idCartItem[c]) \notin LockedItems(c)
  /\ \E crtItm \in cartItem :
       /\ crtItm.idCartItem = Val(idCartItem[c])
       /\ ret' = [ret EXCEPT ![c] = [number |-> 0, message |-> "",
                                     row |-> {CartItemResult(crtItm)}]]
  /\ pc' = [pc EXCEPT ![c] = "done"]
  /\ UNCHANGED <<catalog, db, http, tables, arg, locals, undo, before, added, calls, changes>>

\* The caller has the result or the error; the connection is free again.
Return(c) ==
  /\ pc[c] = "done"
  /\ pc' = [pc EXCEPT ![c] = "idle"]
  /\ arg' = [arg EXCEPT ![c] = NoRequest]
  /\ ret' = [ret EXCEPT ![c] = NoReturn]
  /\ before' = [before EXCEPT ![c] = NoTables]
  /\ idCart' = [idCart EXCEPT ![c] = NULL]
  /\ unitPrice' = [unitPrice EXCEPT ![c] = NULL]
  /\ totalPrice' = [totalPrice EXCEPT ![c] = NULL]
  /\ idCartItem' = [idCartItem EXCEPT ![c] = NULL]
  /\ existingQuantity' = [existingQuantity EXCEPT ![c] = NULL]
  /\ UNCHANGED <<catalog, db, http, tables, undo, added, calls, changes>>

\* ---------------------------------------------------------- catalog changes

\* The product and the size whose prices change.
PricedProduct == {1}

PricedSize == {1}

BasePrices == {20, 30}

PriceModifiers == {0, 5}

ChangeBasePrice ==
  /\ changes < MaxCatalogChanges
  /\ \E prd \in product, v \in BasePrices :
       /\ prd.idProduct \in PricedProduct
       /\ v # prd.basePrice
       /\ product' = (product \ {prd}) \cup {[prd EXCEPT !.basePrice = v]}
  /\ changes' = changes + 1
  /\ UNCHANGED <<confectioner, productImage, flavor, review, db, http, size, productFlavor,
                 productSize, tables, pc, arg, locals, undo, ret, before,
                 added, calls>>

ChangePromotion ==
  /\ changes < MaxCatalogChanges
  /\ \E prd \in product :
       /\ prd.idProduct \in PricedProduct
       /\ product' = (product \ {prd}) \cup {[prd EXCEPT !.isPromotion = ~@]}
  /\ changes' = changes + 1
  /\ UNCHANGED <<confectioner, productImage, flavor, review, db, http, size, productFlavor,
                 productSize, tables, pc, arg, locals, undo, ret, before,
                 added, calls>>

ChangePriceModifier ==
  /\ changes < MaxCatalogChanges
  /\ \E siz \in size, v \in PriceModifiers :
       /\ siz.idSize \in PricedSize
       /\ v # siz.priceModifier
       /\ size' = (size \ {siz}) \cup {[siz EXCEPT !.priceModifier = v]}
  /\ changes' = changes + 1
  /\ UNCHANGED <<confectioner, productImage, flavor, review, db, http, product, productFlavor,
                 productSize, tables, pc, arg, locals, undo, ret, before,
                 added, calls>>

\* ------------------------------------------------------- text and ordering

\* text LIKE '%' + term + '%', for a term without wildcard characters.
Contains(text, term) ==
  \E i \in 0..(Len(text) - Len(term)) : SubSeq(text, i + 1, i + Len(term)) = term

Digits == <<"0", "1", "2", "3", "4", "5", "6", "7", "8", "9">>

IsDigit(ch) == \E d \in 1..Len(Digits) : Digits[d] = ch

DigitOf(ch) == (CHOOSE d \in 1..Len(Digits) : Digits[d] = ch) - 1

IsDigits(text) == \A i \in 1..Len(text) : IsDigit(text[i])

RECURSIVE DigitsValue(_)
DigitsValue(text) ==
  IF text = <<>> THEN 0
  ELSE 10 * DigitsValue(SubSeq(text, 1, Len(text) - 1)) + DigitOf(text[Len(text)])

\* STRING_SPLIT(text, ','): the substrings between the commas, one for the
\* empty text.
RECURSIVE STRING_SPLIT(_)
STRING_SPLIT(text) ==
  IF \E i \in 1..Len(text) : text[i] = ","
    THEN LET i == CHOOSE k \in 1..Len(text) :
                    text[k] = "," /\ \A j \in 1..(k - 1) : text[j] # ","
         IN  <<SubSeq(text, 1, i - 1)>> \o STRING_SPLIT(SubSeq(text, i + 1, Len(text)))
    ELSE <<text>>

\* CAST(value AS INT) of a text: digits with an optional sign, 0 for the empty
\* text; of any other text the conversion fails.
CanCastInt(text) ==
  \/ IsDigits(text)
  \/ Len(text) > 1 /\ text[1] = "-" /\ IsDigits(Tail(text))

CastInt(text) ==
  IF text # <<>> /\ text[1] = "-" THEN 0 - DigitsValue(Tail(text))
  ELSE DigitsValue(text)

\* SQL Server's error for a text that does not convert to INT.
ConversionFailed == 245

\* SELECT CAST([value] AS INT) FROM STRING_SPLIT(@ids, ','), for @ids not NULL.
IdsOf(ids) ==
  {CastInt(STRING_SPLIT(Val(ids))[i]) : i \in 1..Len(STRING_SPLIT(Val(ids)))}

IdsConvert(ids) ==
  ids = NULL \/ \A i \in 1..Len(STRING_SPLIT(Val(ids))) : CanCastInt(STRING_SPLIT(Val(ids))[i])

\* The order of two nullable numbers, NULL the lowest: -1, 0 or 1.
Compare(x, y) ==
  IF x = y THEN 0
  ELSE IF x = NULL THEN 0 - 1
  ELSE IF y = NULL THEN 1
  ELSE IF Val(x) < Val(y) THEN 0 - 1
  ELSE 1

\* The first key of an ORDER BY that tells two rows apart puts the first row
\* before the second.
Precedes(keys) ==
  \E i \in 1..Len(keys) : keys[i] = 0 - 1 /\ \A j \in 1..(i - 1) : keys[j] = 0

\* The first n rows of the set rows in every order the relation earlier
\* allows: ORDER BY leaves the order of rows with equal keys open.
RECURSIVE TopRows(_, _, _)
TopRows(rows, earlier, n) ==
  IF n = 0 \/ rows = {} THEN {<<>>}
  ELSE UNION {{<<r>> \o rest : rest \in TopRows(rows \ {r}, earlier, n - 1)} :
                r \in {r \in rows : \A q \in rows : <<q, r>> \notin earlier}}

\* The rows of a sequence after the first n.
Skip(rows, n) == IF n >= Len(rows) THEN <<>> ELSE SubSeq(rows, n + 1, Len(rows))

\* ----------------------------------------------------------- spProductList

SortKeys ==
  {"relevancia", "preco_menor", "preco_maior", "mais_vendidos",
   "melhor_avaliados", "mais_recentes"}

Availabilities == {"disponivel", "indisponivel", "todos"}

PageSizes == {12, 24, 36}

DefaultPage == 1

DefaultPageSize == 12

DefaultAvailability == "disponivel"

\* IF (@page < 1) SET @page = 1, and the like.
EffectivePage(p) == IF p.page < 1 THEN DefaultPage ELSE p.page

EffectivePageSize(p) ==
  IF p.pageSize \notin PageSizes THEN DefaultPageSize ELSE p.pageSize

EffectiveAvailability(p) ==
  IF p.availability \notin Availabilities THEN DefaultAvailability
  ELSE p.availability

\* The price of a product without the promotion.
EffectivePriceBase(prd) == {prd.basePrice}

\* CASE WHEN isPromotion = 1 THEN promotionalPrice ELSE basePrice END.

EffectivePrice(prd) ==
  IF prd.isPromotion THEN prd.promotionalPrice ELSE {prd.basePrice}

\* CASE WHEN isPromotion = 1 THEN basePrice ELSE NULL END.
OriginalPrice(prd) == IF prd.isPromotion THEN {prd.basePrice} ELSE NULL

\* The availability filter with "available" as available = 1 only.
AvailabilityMatchesAnyStock(availability, prd) ==
  \/ availability = "disponivel" /\ prd.available = TRUE
  \/ availability = "indisponivel" /\ (prd.available = FALSE \/ prd.stock = 0)
  \/ availability = "todos"

AvailabilityMatches(availability, prd) ==
  \/ availability = "disponivel" /\ prd.available = TRUE /\ prd.stock > 0
  \/ availability = "indisponivel" /\ (prd.available = FALSE \/ prd.stock = 0)
  \/ availability = "todos"

FlavorMatches(prd, ids) ==
  \E prdFlv \in productFlavor :
    /\ prdFlv.idAccount = prd.idAccount
    /\ prdFlv.idProduct = prd.idProduct
    /\ prdFlv.idFlavor \in IdsOf(ids)
    /\ prdFlv.available = TRUE

SizeMatches(prd, ids) ==
  \E prdSiz \in productSize :
    /\ prdSiz.idAccount = prd.idAccount
    /\ prdSiz.idProduct = prd.idProduct
    /\ prdSiz.idSize \in IdsOf(ids)
    /\ prdSiz.available = TRUE

\* A comparison with a NULL price is not true.
PriceMatches(p, prd) ==
  /\ p.minPrice = NULL \/ \E v \in EffectivePrice(prd) : v >= Val(p.minPrice)
  /\ p.maxPrice = NULL \/ \E v \in EffectivePrice(prd) : v <= Val(p.maxPrice)

SearchMatches(p, prd) ==
  \/ p.searchTerm = NULL
  \/ Contains(prd.name, Val(p.searchTerm))
  \/ Contains(prd.description, Val(p.searchTerm))
  \/ Contains(prd.ingredients, Val(p.searchTerm))

\* FROM product JOIN confectioner ON idAccount, idConfectioner.
ProductConfectioner ==
  {j \in [prd : product, cnf : confectioner] :
     /\ j.cnf.idAccount = j.prd.idAccount
     /\ j.cnf.idConfectioner = j.prd.idConfectioner}

\* LEFT JOIN productImage ON idAccount, idProduct, isPrimary = 1: the image
\* URLs a product is joined with, NULL when it has no primary image.
PrimaryImageUrls(prd) ==
  LET urls == {{prdImg.imageUrl} : prdImg \in
                 {i \in productImage : /\ i.idAccount = prd.idAccount
                                       /\ i.idProduct = prd.idProduct
                                       /\ i.isPrimary = TRUE}}
  IN  IF urls = {} THEN {NULL} ELSE urls

ProductConfectionerImage ==
  UNION {{[prd |-> j.prd, cnf |-> j.cnf, imageUrl |-> url] :
            url \in PrimaryImageUrls(j.prd)} : j \in ProductConfectioner}

\* WHERE of the page query for parameters p after the defaults.
ListWhere(p, j) ==
  /\ j.prd.idAccount = Val(p.idAccount)
  /\ j.prd.deleted = FALSE
  /\ j.cnf.deleted = FALSE
  /\ AvailabilityMatches(EffectiveAvailability(p), j.prd)
  /\ p.categoryIds = NULL \/ j.prd.idCategory \in IdsOf(p.categoryIds)
  /\ p.flavorIds = NULL \/ FlavorMatches(j.prd, p.flavorIds)
  /\ p.sizeIds = NULL \/ SizeMatches(j.prd, p.sizeIds)
  /\ PriceMatches(p, j.prd)
  /\ p.confectionerIds = NULL \/ j.prd.idConfectioner \in IdsOf(p.confectionerIds)
  /\ SearchMatches(p, j.prd)

\* WHERE of the count query.
CountWhere(p, j) ==
  /\ j.prd.idAccount = Val(p.idAccount)
  /\ j.prd.deleted = FALSE
  /\ j.cnf.deleted = FALSE
  /\ AvailabilityMatches(EffectiveAvailability(p), j.prd)
  /\ p.categoryIds = NULL \/ j.prd.idCategory \in IdsOf(p.categoryIds)
  /\ p.flavorIds = NULL \/ FlavorMatches(j.prd, p.flavorIds)
  /\ p.sizeIds = NULL \/ SizeMatches(j.prd, p.sizeIds)
  /\ PriceMatches(p, j.prd)
  /\ p.confectionerIds = NULL \/ j.prd.idConfectioner \in IdsOf(p.confectionerIds)
  /\ SearchMatches(p, j.prd)

\* ORDER BY of the page query: the keys that compare row a with row b.
ListOrderBy(sortBy, a, b) ==
  <<IF sortBy = "preco_menor"
      THEN Compare(EffectivePrice(a.prd), EffectivePrice(b.prd)) ELSE 0,
    IF sortBy = "preco_maior"
      THEN Compare(EffectivePrice(b.prd), EffectivePrice(a.prd)) ELSE 0,
    IF sortBy = "mais_vendidos"
      THEN Compare({b.prd.totalSales}, {a.prd.totalSales}) ELSE 0,
    IF sortBy = "melhor_avaliados"
      THEN Compare({b.prd.averageRating}, {a.prd.averageRating}) ELSE 0,
    IF sortBy = "mais_recentes"
      THEN Compare({b.prd.dateCreated}, {a.prd.dateCreated}) ELSE 0,
    Compare({a.prd.idProduct}, {b.prd.idProduct})>>

\* The columns of a row of the page.
ListRow(j) ==
  [idProduct |-> j.prd.idProduct, name |-> j.prd.name, imageUrl |-> j.imageUrl,
   price |-> EffectivePrice(j.prd), originalPrice |-> OriginalPrice(j.prd),
   isPromotion |-> j.prd.isPromotion, averageRating |-> j.prd.averageRating,
   totalReviews |-> j.prd.totalReviews, confectionerName |-> j.cnf.name,
   available |-> j.prd.available]

\* OFFSET @offset ROWS FETCH NEXT @pageSize ROWS ONLY of an ordered sequence.
Fetch(rows, offset, pageSize) ==
  IF Len(Skip(rows, offset)) <= pageSize THEN Skip(rows, offset)
  ELSE SubSeq(Skip(rows, offset), 1, pageSize)

\* The pages the page query can return.
ListPages(p) ==
  LET matched == {j \in ProductConfectionerImage : ListWhere(p, j)}
      earlier == {ab \in matched \X matched :
                    Precedes(ListOrderBy(p.sortBy, ab[1], ab[2]))}
      offset == (EffectivePage(p) - 1) * EffectivePageSize(p)
  IN  {[i \in 1..Len(Fetch(rows, offset, EffectivePageSize(p))) |->
          ListRow(Fetch(rows, offset, EffectivePageSize(p))[i])] :
         rows \in TopRows(matched, earlier, offset + EffectivePageSize(p))}

\* COUNT(*) / @pageSize in integers.
CeilingTruncated(n, d) == n \div d

\* CEILING(CAST(n AS FLOAT) / d) for n >= 0 and d > 0.
Ceiling(n, d) == IF n % d = 0 THEN n \div d ELSE n \div d + 1

\* The row of the count query.
Pagination(p) ==
  LET totalItems == Cardinality({j \in ProductConfectioner : CountWhere(p, j)})
  IN  [totalItems |-> totalItems,
       totalPages |-> Ceiling(totalItems, EffectivePageSize(p)),
       currentPage |-> EffectivePage(p),
       pageSize |-> EffectivePageSize(p)]

\* What dbRequest gets from a procedure: the record sets, or the error thrown.
Returned(recordsets) ==
  [thrown |-> FALSE, number |-> NULL, message |-> "", recordsets |-> recordsets]

Thrown(number, message) ==
  [thrown |-> TRUE, number |-> number, message |-> message, recordsets |-> <<>>]

\* The outcomes of EXEC spProductList with parameters p.
spProductList(p) ==
  IF p.idAccount = NULL THEN {Thrown({DomainError}, "idAccountRequired")}
  ELSE IF ~(/\ IdsConvert(p.categoryIds) /\ IdsConvert(p.flavorIds)
            /\ IdsConvert(p.sizeIds) /\ IdsConvert(p.confectionerIds))
    THEN {Thrown({ConversionFailed}, "conversionFailed")}
  ELSE {Returned(<<page, <<Pagination(p)>>>>) : page \in ListPages(p)}

\* -------------------------------------------------------- spProductRelated

Criteria == {"categoria", "sabor", "confeiteiro", "popularidade"}

DefaultLimit == 4

DefaultCriteria == "categoria"

EffectiveLimit(p) == IF p.limit < 1 THEN DefaultLimit ELSE p.limit

EffectiveCriteria(p) ==
  IF p.criteria \notin Criteria THEN DefaultCriteria ELSE p.criteria

ReferenceExists(p) ==
  \E prd \in product :
    /\ prd.idAccount = Val(p.idAccount)
    /\ prd.idProduct = Val(p.idProduct)
    /\ prd.deleted = FALSE

\* SELECT @idCategory = idCategory, @idConfectioner = idConfectioner.
Reference(p) ==
  CHOOSE prd \in product :
    prd.idAccount = Val(p.idAccount) /\ prd.idProduct = Val(p.idProduct)

\* The WHERE that does not leave the reference product out.
RelatedWhereWithReference(p, j) ==
  /\ j.prd.idAccount = Val(p.idAccount)
  /\ EffectiveCriteria(p) = "categoria" => j.prd.idCategory = Reference(p).idCategory
  /\ EffectiveCriteria(p) = "confeiteiro" =>
       j.prd.idConfectioner = Reference(p).idConfectioner
  /\ j.prd.available = TRUE
  /\ j.prd.stock > 0
  /\ j.prd.deleted = FALSE
  /\ j.cnf.deleted = FALSE

\* WHERE of the branch of the criteria.
RelatedWhere(p, j) ==
  /\ j.prd.idAccount = Val(p.idAccount)
  /\ j.prd.idProduct # Val(p.idProduct)
  /\ EffectiveCriteria(p) = "categoria" => j.prd.idCategory = Reference(p).idCategory
  /\ EffectiveCriteria(p) = "confeiteiro" =>
       j.prd.idConfectioner = Reference(p).idConfectioner
  /\ j.prd.available = TRUE
  /\ j.prd.stock > 0
  /\ j.prd.deleted = FALSE
  /\ j.cnf.deleted = FALSE

\* The ORDER BY of the categoria branch in every branch.
RelatedOrderByRating(criteria, a, b) ==
  <<Compare({b.prd.averageRating}, {a.prd.averageRating}),
    Compare({b.prd.totalSales}, {a.prd.totalSales})>>

\* ORDER BY of the branch of the criteria.
RelatedOrderBy(criteria, a, b) ==
  IF criteria = "popularidade"
    THEN <<Compare({b.prd.totalSales}, {a.prd.totalSales}),
           Compare({b.prd.averageRating}, {a.prd.averageRating})>>
    ELSE <<Compare({b.prd.averageRating}, {a.prd.averageRating}),
           Compare({b.prd.totalSales}, {a.prd.totalSales})>>

RelatedRow(j) ==
  [idProduct |-> j.prd.idProduct, name |-> j.prd.name, imageUrl |-> j.imageUrl,
   price |-> EffectivePrice(j.prd), originalPrice |-> OriginalPrice(j.prd),
   isPromotion |-> j.prd.isPromotion, averageRating |-> j.prd.averageRating,
   totalReviews |-> j.prd.totalReviews, confectionerName |-> j.cnf.name]

\* SELECT TOP (@limit) ... ORDER BY: the record sets the branch can return.
RelatedRows(p) ==
  LET matched == {j \in ProductConfectionerImage : RelatedWhere(p, j)}
      earlier == {ab \in matched \X matched :
                    Precedes(RelatedOrderBy(EffectiveCriteria(p), ab[1], ab[2]))}
  IN  {[i \in 1..Len(rows) |-> RelatedRow(rows[i])] :
         rows \in TopRows(matched, earlier, EffectiveLimit(p))}

\* The outcomes of EXEC spProductRelated with parameters p; the criteria
\* 'sabor' has no branch and returns no record set.
spProductRelated(p) ==
  IF p.idAccount = NULL THEN {Thrown({DomainError}, "idAccountRequired")}
  ELSE IF p.idProduct = NULL THEN {Thrown({DomainError}, "idProductRequired")}
  ELSE IF ~ReferenceExists(p) THEN {Thrown({DomainError}, "productDoesntExist")}
  ELSE IF EffectiveCriteria(p) = "sabor" THEN {Returned(<<>>)}
  ELSE {Returned(<<rows>>) : rows \in RelatedRows(p)}

\* --------------------------------------------------------------- dbRequest

\* A catalog with more than a page of products: next to the products of
\* InitProduct, 7 with a negative stock, 8 of a deleted confectioner, 9 on
\* promotion without a promotional price, 10 of another account, 11 with a
\* promotional price and not on promotion, 12 with two primary images, 12 and
\* 13 with equal rating and sales, 22 with a promotional price equal to its
\* base price, 23 not available and out of stock.
CatalogProduct ==
  InitProduct \cup
  {Product(7, 1, 1, Bolo, 25, NULL, FALSE, TRUE, 0 - 1, 40, 2, FALSE),
   Product(8, 1, 3, Bolo, 25, NULL, FALSE, TRUE, 5, 40, 2, FALSE),
   Product(9, 2, 2, Torta, 30, NULL, TRUE, TRUE, 5, 30, 1, FALSE),
   [Product(10, 1, 4, Bolo, 20, NULL, FALSE, TRUE, 5, 40, 2, FALSE)
      EXCEPT !.idAccount = 2],
   [Product(11, 2, 2, Cake, 30, {10}, FALSE, TRUE, 4, 35, 4, FALSE)
      EXCEPT !.description = Bolo],
   Product(12, 1, 1, Cake, 22, NULL, FALSE, TRUE, 3, 48, 6, FALSE),
   Product(13, 1, 1, Bolo, 18, {12}, TRUE, TRUE, 3, 48, 6, FALSE),
   Product(23, 2, 2, Cake, 20, NULL, FALSE, FALSE, 0, 20, 0, FALSE)} \cup
  {Product(i, IF i = 22 THEN 2 ELSE 1, IF i < 17 THEN 1 ELSE 2,
           IF i % 2 = 0 THEN Bolo ELSE Cake, 10 + i,
           IF i = 22 THEN {10 + i} ELSE NULL, FALSE, TRUE, i,
           30 + 3 * (i % 5), (7 * i) % 10, FALSE) : i \in 14..22}

CatalogProductImage ==
  InitProductImage \cup
  {[idProductImage |-> 4, idAccount |-> 1, idProduct |-> 12, imageUrl |-> "12a.png",
    isPrimary |-> TRUE, displayOrder |-> 0],
   [idProductImage |-> 5, idAccount |-> 1, idProduct |-> 12, imageUrl |-> "12b.png",
    isPrimary |-> TRUE, displayOrder |-> 0],
   [idProductImage |-> 6, idAccount |-> 1, idProduct |-> 13, imageUrl |-> "13a.png",
    isPrimary |-> TRUE, displayOrder |-> 0]}

CatalogProductFlavor ==
  InitProductFlavor \cup
  {[idAccount |-> 1, idProduct |-> q, idFlavor |-> f, available |-> f # 2] :
     q \in 12..16, f \in 1..2} \cup
  {[idAccount |-> 1, idProduct |-> q, idFlavor |-> f, available |-> TRUE] :
     q \in 12..13, f \in 4..5}

CatalogProductSize ==
  InitProductSize \cup
  {[idAccount |-> 1, idProduct |-> q, idSize |-> z, available |-> z # 2] :
     q \in 14..18, z \in 1..2} \cup
  {[idAccount |-> 1, idProduct |-> q, idSize |-> 5, available |-> TRUE] :
     q \in 14..15}

\* Size 5 is deleted and enabled for products 14 and 15.
CatalogSize ==
  InitSize \cup
  {[idSize |-> 5, idAccount |-> 1, servings |-> 30, priceModifier |-> 9,
    deleted |-> TRUE]}

\* Flavor 4 is deleted and flavor 5 of another account; both are enabled for
\* products 12 and 13.
CatalogFlavor ==
  InitFlavor \cup
  {[idFlavor |-> 4, idAccount |-> 1, name |-> 4, deleted |-> TRUE],
   [idFlavor |-> 5, idAccount |-> 2, name |-> 5, deleted |-> FALSE]}

\* The calls of spProductGet.
GetParameters ==
  [idAccount : {NULL, {1}, {2}}, idProduct : {NULL} \cup {{i} : i \in 1..24}]

\* A text parameter of one or two ids.
One == <<"1">>

Two == <<"2">>

OneTwo == <<"1", ",", "2">>

\* The calls of spProductList: every page, page size, sort key and
\* availability without filters; the filters in every combination on the
\* first pages; the accounts.
ListParameters ==
  [idAccount : {{1}}, page : 0..3, pageSize : {0, 10, 12, 24, 36},
   sortBy : SortKeys \cup {"x"}, availability : Availabilities \cup {"x"},
   categoryIds : {NULL}, flavorIds : {NULL}, sizeIds : {NULL}, minPrice : {NULL},
   maxPrice : {NULL}, confectionerIds : {NULL}, searchTerm : {NULL}]
  \cup
  [idAccount : {{1}}, page : 1..2, pageSize : {12},
   sortBy : {"relevancia", "preco_menor"}, availability : Availabilities,
   categoryIds : {NULL, {One}, {OneTwo}, {<<>>}, {<<"x">>}},
   flavorIds : {NULL, {One}}, sizeIds : {NULL, {One}},
   minPrice : {NULL, {15}, {20}}, maxPrice : {NULL, {20}},
   confectionerIds : {NULL, {Two}},
   searchTerm : {NULL, {<<"b", "o">>}, {<<>>}}]
  \cup
  [idAccount : {NULL, {2}}, page : {1}, pageSize : {12}, sortBy : {"relevancia"},
   availability : {"todos"}, categoryIds : {NULL}, flavorIds : {NULL},
   sizeIds : {NULL}, minPrice : {NULL}, maxPrice : {NULL},
   confectionerIds : {NULL}, searchTerm : {NULL}]

\* The calls of spProductRelated.
RelatedParameters ==
  [idAccount : {NULL, {1}, {2}}, idProduct : {NULL} \cup {{i} : i \in 1..23},
   limit : {0 - 1, 0, 1, 2, 4, 30}, criteria : Criteria \cup {"x"}]

\* await request.execute(routine) for spProductList.
ExecuteProductList(p) ==
  /\ routine = ""
  /\ routine' = "spProductList"
  /\ parameters' = p
  /\ \E r \in spProductList(p) : result' = r
  /\ UNCHANGED <<catalog, tables, pc, arg, locals, undo, ret, before, added,
                 calls, changes, http>>

\* await request.execute(routine) for spProductRelated.
ExecuteProductRelated(p) ==
  /\ routine = ""
  /\ routine' = "spProductRelated"
  /\ parameters' = p
  /\ \E r \in spProductRelated(p) : result' = r
  /\ UNCHANGED <<catalog, tables, pc, arg, locals, undo, ret, before, added,
                 calls, changes, http>>

\* The caller of dbRequest has the record sets or the error.
Resolve ==
  /\ routine # ""
  /\ routine' = ""
  /\ parameters' = <<>>
  /\ result' = NoResult
  /\ UNCHANGED <<catalog, tables, pc, arg, locals, undo, ret, before, added,
                 calls, changes, http>>

\* ------------------------------------------------------ request parameters

\* A value of req.params, req.query or req.body that a number is read from: a
\* JSON number x / 10, a string (the sequence of its characters), null, or
\* undefined for a key that is not there.
Undefined == [t |-> "undefined", x |-> 0, s |-> <<>>]

JsonNull == [t |-> "null", x |-> 0, s |-> <<>>]

Num(n) == [t |-> "number", x |-> 10 * n, s |-> <<>>]

Tenths(x) == [t |-> "number", x |-> x, s |-> <<>>]

Str(s) == [t |-> "string", x |-> 0, s |-> s]

\* A value that is compared as a whole: a string, null, undefined or, with
\* t = "number", a value that is no string.
Text(a) == [t |-> "string", a |-> a]

NoText == [t |-> "undefined", a |-> ""]

NullText == [t |-> "null", a |-> ""]

NotText == [t |-> "number", a |-> ""]

LongSessionId ==
  "ssssssssssssssssssssssssssssssssssssssssssssssssssssssssssssssssssssssssssssssssssssssssssssssssssssssssssssssssssssssssssssssssssssssssssssssssssssssssssssssssssssssssssssssssssssssssssssssssssssssssssssssssssssssssssssssssssssssssssssssssssssssssssssssss"

LongObservations ==
  "ooooooooooooooooooooooooooooooooooooooooooooooooooooooooooooooooooooooooooooooooooooooooooooooooooooooooooooooooooooooooooooooooooooooooooooooooooooooooooooooooooooooooooooooooooooooooooooooooooooooooo"

\* The number of characters of the strings of the requests.
Length(a) ==
  CASE a = "" -> 0
    [] a \in Sessions -> 2
    [] a = "no nuts" -> 7
    [] a = LongSessionId -> 256
    [] a = LongObservations -> 201

\* Number(text) of JavaScript in tenths, for a text of digits with an optional
\* sign and an optional decimal; NaN is <<>>.
NaN == <<>>

NumberOfText(s) ==
  IF CanCastInt(s) THEN <<10 * CastInt(s)>>
  ELSE IF /\ Len(s) > 2
          /\ s[Len(s) - 1] = "."
          /\ IsDigit(s[Len(s)])
          /\ CanCastInt(SubSeq(s, 1, Len(s) - 2))
    THEN IF s[1] = "-"
           THEN <<10 * CastInt(SubSeq(s, 1, Len(s) - 2)) - DigitOf(s[Len(s)])>>
           ELSE <<10 * CastInt(SubSeq(s, 1, Len(s) - 2)) + DigitOf(s[Len(s)])>>
  ELSE NaN

\* z.coerce.number(): Number(input); Number(null) is 0, Number(undefined) NaN.
Coerce(v) ==
  CASE v.t = "number" -> <<v.x>>
    [] v.t = "string" -> NumberOfText(v.s)
    [] v.t = "null" -> <<0>>
    [] v.t = "undefined" -> NaN

\* .int() and the whole number it accepts.
IsInt(v) == Coerce(v) # NaN /\ Coerce(v)[1] % 10 = 0

IntOf(v) == Coerce(v)[1] \div 10

\* zFK: z.coerce.number().int().positive().
zFK(v) == IsInt(v) /\ Coerce(v)[1] > 0

\* validateOperation: the credential of every request.
Credential == [idAccount |-> 1, idUser |-> 1]

\* The keys of the schema of each handler.
SchemaKeys(h) ==
  CASE h = "list" -> {"page", "pageSize", "sortBy", "categoryIds", "flavorIds",
                      "sizeIds", "minPrice", "maxPrice", "confectionerIds",
                      "availability", "searchTerm"}
    [] h = "get" -> {"id"}
    [] h = "related" -> {"id", "limit", "criteria"}
    [] h = "addItem" -> {"sessionId", "idProduct", "idFlavor", "idSize", "quantity",
                         "observations"}

\* A schema that lets the keys it does not know through.
ParsedKeysPassthrough(h, input) == DOMAIN input

\* z.object({...}): the keys of the parsed object; a key the schema does not
\* know is stripped.
ParsedKeys(h, input) == DOMAIN input \cap SchemaKeys(h)

\* The idAccount of the object the handler passes to its service:
\* {...validated.credential, ...validated.params} in listHandler and
\* addItemHandler, {...validated.credential, idProduct: ...} in the others.
CallIdAccount(h, input) ==
  IF h \in {"list", "addItem"} /\ "idAccount" \in ParsedKeys(h, input)
    THEN IntOf(input.idAccount)
    ELSE Credential.idAccount

\* addItemHandler: the keys of bodySchema the body fails.
BodyIssues(body) ==
  {f \in {"idProduct", "idFlavor", "idSize"} : ~zFK(body[f])}
  \cup {f \in {"sessionId"} : ~(/\ body.sessionId.t = "string"
                                /\ Length(body.sessionId.a) >= 1
                                /\ Length(body.sessionId.a) <= 255)}
  \cup {f \in {"quantity"} : ~(/\ IsInt(body.quantity)
                               /\ IntOf(body.quantity) >= 1
                               /\ IntOf(body.quantity) <= MaxQuantity)}
  \cup {f \in {"observations"} : ~(\/ body.observations.t = "undefined"
                                   \/ /\ body.observations.t = "string"
                                      /\ Length(body.observations.a) <= 200)}

\* cartItemAdd({...validated.credential, ...validated.params}): the parameters
\* of spCartItemAdd.
BodyParams(body) ==
  [idAccount |-> CallIdAccount("addItem", body), sessionId |-> body.sessionId.a,
   idProduct |-> IntOf(body.idProduct), idFlavor |-> IntOf(body.idFlavor),
   idSize |-> IntOf(body.idSize), quantity |-> IntOf(body.quantity),
   observations |-> IF body.observations.t = "undefined" THEN NULL
                    ELSE {body.observations.a}]

\* zNullableString(500): z.string().max(500).nullable().
zNullableString(v) == v.t = "null" \/ (v.t = "string" /\ Len(v.s) <= 500)

\* pageSize: z.coerce.number().int().refine(in 12, 24, 36).optional().
PageSizeAllowed(v) == v.t = "undefined" \/ (IsInt(v) /\ IntOf(v) \in PageSizes)

\* listHandler: the keys of querySchema the query fails.
QueryIssues(query) ==
  {f \in {"page"} : ~(\/ query.page.t = "undefined"
                      \/ IsInt(query.page) /\ IntOf(query.page) > 0)}
  \cup {f \in {"pageSize"} : ~PageSizeAllowed(query.pageSize)}
  \cup {f \in {"sortBy"} : ~(\/ query.sortBy.t = "undefined"
                             \/ query.sortBy.t = "string" /\ query.sortBy.a \in SortKeys)}
  \cup {f \in {"categoryIds", "flavorIds", "sizeIds", "confectionerIds"} :
          ~zNullableString(query[f])}
  \cup {f \in {"minPrice", "maxPrice"} :
          ~(\/ query[f].t = "undefined"
            \/ Coerce(query[f]) # NaN /\ Coerce(query[f])[1] >= 0)}
  \cup {f \in {"availability"} :
          ~(\/ query.availability.t = "undefined"
            \/ /\ query.availability.t = "string"
               /\ query.availability.a \in Availabilities)}
  \cup {f \in {"searchTerm"} : ~(\/ query.searchTerm.t = "undefined"
                                 \/ /\ query.searchTerm.t = "string"
                                    /\ Len(query.searchTerm.s) <= 100)}

\* A string or NULL for a parameter of a procedure.
NullableText(v) == IF v.t = "string" THEN {v.s} ELSE NULL

\* productList({...validated.credential, ...validated.params}): the parameters
\* of spProductList with the defaults of querySchema; the prices of the model
\* are whole numbers.
QueryParams(query) ==
  [idAccount |-> {CallIdAccount("list", query)},
   page |-> IF query.page.t = "undefined" THEN DefaultPage ELSE IntOf(query.page),
   pageSize |-> IF query.pageSize.t = "undefined" THEN DefaultPageSize
                ELSE IntOf(query.pageSize),
   sortBy |-> IF query.sortBy.t = "undefined" THEN "relevancia" ELSE query.sortBy.a,
   categoryIds |-> NullableText(query.categoryIds),
   flavorIds |-> NullableText(query.flavorIds),
   sizeIds |-> NullableText(query.sizeIds),
   minPrice |-> IF query.minPrice.t = "undefined" THEN NULL
                ELSE {IntOf(query.minPrice)},
   maxPrice |-> IF query.maxPrice.t = "undefined" THEN NULL
                ELSE {IntOf(query.maxPrice)},
   confectionerIds |-> NullableText(query.confectionerIds),
   availability |-> IF query.availability.t = "undefined" THEN DefaultAvailability
                    ELSE query.availability.a,
   searchTerm |-> NullableText(query.searchTerm)]

\* getHandler: the keys of paramsSchema the parameters fail.
GetIssues(params) == {f \in {"id"} : ~zFK(params.id)}

GetParams(params) ==
  [idAccount |-> {CallIdAccount("get", params)}, idProduct |-> {IntOf(params.id)}]

\* relatedHandler: the keys of paramsSchema the parameters fail.
RelatedIssues(params) ==
  {f \in {"id"} : ~zFK(params.id)}
  \cup {f \in {"limit"} : ~(\/ params.limit.t = "undefined"
                            \/ IsInt(params.limit) /\ IntOf(params.limit) > 0)}
  \cup {f \in {"criteria"} : ~(\/ params.criteria.t = "undefined"
                               \/ /\ params.criteria.t = "string"
                                  /\ params.criteria.a \in Criteria)}

RelatedParams(params) ==
  [idAccount |-> {CallIdAccount("related", params)}, idProduct |-> {IntOf(params.id)},
   limit |-> IF params.limit.t = "undefined" THEN DefaultLimit
             ELSE IntOf(params.limit),
   criteria |-> IF params.criteria.t = "undefined" THEN DefaultCriteria
                ELSE params.criteria.a]

\* ------------------------------------------------------------ spProductGet

\* The existence validation that takes a soft-deleted product.
DetailsExistDeleted(p) ==
  \E prd \in product :
    /\ prd.idAccount = Val(p.idAccount)
    /\ prd.idProduct = Val(p.idProduct)

\* The product existence validation of spProductGet.
DetailsExist(p) ==
  \E prd \in product :
    /\ prd.idAccount = Val(p.idAccount)
    /\ prd.idProduct = Val(p.idProduct)
    /\ prd.deleted = FALSE

\* The rows of a set in every order the relation earlier allows.
Ordered(rows, earlier) == TopRows(rows, earlier, Cardinality(rows))

\* The first record set: the details of the product.
ProductDetails(p) ==
  LET rows == {prd \in product : /\ prd.idAccount = Val(p.idAccount)
                                 /\ prd.idProduct = Val(p.idProduct)
                                 /\ prd.deleted = FALSE}
  IN  {[i \in 1..Len(r) |->
          [idProduct |-> r[i].idProduct, name |-> r[i].name,
           description |-> r[i].description, ingredients |-> r[i].ingredients,
           basePrice |-> r[i].basePrice, promotionalPrice |-> r[i].promotionalPrice,
           isPromotion |-> r[i].isPromotion, available |-> r[i].available,
           averageRating |-> r[i].averageRating, totalReviews |-> r[i].totalReviews]] :
         r \in Ordered(rows, {})}

\* The images, ORDER BY isPrimary DESC, displayOrder ASC.
ProductImages(p) ==
  LET rows == {prdImg \in productImage : /\ prdImg.idAccount = Val(p.idAccount)
                                         /\ prdImg.idProduct = Val(p.idProduct)}
      earlier == {ab \in rows \X rows :
                    Precedes(<<Compare({IF ab[2].isPrimary THEN 1 ELSE 0},
                                       {IF ab[1].isPrimary THEN 1 ELSE 0}),
                               Compare({ab[1].displayOrder}, {ab[2].displayOrder})>>)}
  IN  {[i \in 1..Len(r) |->
          [idProductImage |-> r[i].idProductImage, imageUrl |-> r[i].imageUrl,
           isPrimary |-> r[i].isPrimary, displayOrder |-> r[i].displayOrder]] :
         r \in Ordered(rows, earlier)}

\* FROM flavor JOIN productFlavor ON idAccount, idFlavor WHERE ..., ORDER BY
\* name ASC.
AvailableFlavors(p) ==
  LET rows == {j \in [flv : flavor, prdFlv : productFlavor] :
                 /\ j.prdFlv.idAccount = j.flv.idAccount
                 /\ j.prdFlv.idFlavor = j.flv.idFlavor
                 /\ j.flv.idAccount = Val(p.idAccount)
                 /\ j.prdFlv.idProduct = Val(p.idProduct)
                 /\ j.prdFlv.available = TRUE
                 /\ j.flv.deleted = FALSE}
      earlier == {ab \in rows \X rows :
                    Precedes(<<Compare({ab[1].flv.name}, {ab[2].flv.name})>>)}
  IN  {[i \in 1..Len(r) |-> [idFlavor |-> r[i].flv.idFlavor, name |-> r[i].flv.name]] :
         r \in Ordered(rows, earlier)}

\* FROM size JOIN productSize ON idAccount, idSize WHERE ..., ORDER BY
\* servings ASC.
AvailableSizes(p) ==
  LET rows == {j \in [siz : size, prdSiz : productSize] :
                 /\ j.prdSiz.idAccount = j.siz.idAccount
                 /\ j.prdSiz.idSize = j.siz.idSize
                 /\ j.siz.idAccount = Val(p.idAccount)
                 /\ j.prdSiz.idProduct = Val(p.idProduct)
                 /\ j.prdSiz.available = TRUE
                 /\ j.siz.deleted = FALSE}
      earlier == {ab \in rows \X rows :
                    Precedes(<<Compare({ab[1].siz.servings}, {ab[2].siz.servings})>>)}
  IN  {[i \in 1..Len(r) |->
          [idSize |-> r[i].siz.idSize, servings |-> r[i].siz.servings,
           priceModifier |-> r[i].siz.priceModifier]] :
         r \in Ordered(rows, earlier)}

\* The reviews, ORDER BY dateCreated DESC.
ProductReviews(p) ==
  LET rows == {rev \in review : /\ rev.idAccount = Val(p.idAccount)
                                /\ rev.idProduct = Val(p.idProduct)
                                /\ rev.deleted = FALSE}
      earlier == {ab \in rows \X rows :
                    Precedes(<<Compare({ab[2].dateCreated}, {ab[1].dateCreated})>>)}
  IN  {[i \in 1..Len(r) |->
          [idReview |-> r[i].idReview, rating |-> r[i].rating,
           dateCreated |-> r[i].dateCreated]] :
         r \in Ordered(rows, earlier)}

\* FROM confectioner JOIN product ON idAccount, idConfectioner WHERE ...
ConfectionerData(p) ==
  LET rows == {j \in ProductConfectioner :
                 /\ j.cnf.idAccount = Val(p.idAccount)
                 /\ j.prd.idProduct = Val(p.idProduct)
                 /\ j.cnf.deleted = FALSE}
  IN  {[i \in 1..Len(r) |->
          [idConfectioner |-> r[i].cnf.idConfectioner, name |-> r[i].cnf.name]] :
         r \in Ordered(rows, {})}

\* The outcomes of EXEC spProductGet with parameters p: the six record sets,
\* or the error of a validation.
spProductGet(p) ==
  IF p.idAccount = NULL THEN {Thrown({DomainError}, "idAccountRequired")}
  ELSE IF p.idProduct = NULL THEN {Thrown({DomainError}, "idProductRequired")}
  ELSE IF ~DetailsExist(p) THEN {Thrown({DomainError}, "productDoesntExist")}
  ELSE {Returned(<<details, images, flavors, sizes, reviews, cnf>>) :
          details \in ProductDetails(p), images \in ProductImages(p),
          flavors \in AvailableFlavors(p), sizes \in AvailableSizes(p),
          reviews \in ProductReviews(p), cnf \in ConfectionerData(p)}

\* await request.execute(routine) for spProductGet.
ExecuteProductGet(p) ==
  /\ routine = ""
  /\ routine' = "spProductGet"
  /\ parameters' = p
  /\ \E r \in spProductGet(p) : result' = r
  /\ UNCHANGED <<catalog, tables, pc, arg, locals, undo, ret, before, added,
                 calls, changes, http>>

\* ---------------------------------------------------------------- handlers

Handlers == {"list", "get", "related", "addItem"}

\* The procedure the service of a handler executes.
RoutineOf(h) ==
  CASE h = "list" -> "spProductList"
    [] h = "get" -> "spProductGet"
    [] h = "related" -> "spProductRelated"
    [] h = "addItem" -> "spCartItemAdd"

\* An error object: its statusCode, number, message and stack, NULL for a
\* property it does not have.
StatusGeneralError ==
  [statusCode |-> {500}, number |-> NULL, message |-> "internalServerError",
   stack |-> NULL]

\* What schema.parseAsync throws.
ZodError ==
  [statusCode |-> NULL, number |-> NULL, message |-> "zodIssues",
   stack |-> {"ZodError at parseAsync"}]

\* What dbRequest throws.
RequestError(number, message) ==
  [statusCode |-> NULL, number |-> number, message |-> message,
   stack |-> {"RequestError at dbRequest"}]

\* validateOperation: schema.parseAsync({...req.params, ...req.query,
\* ...req.body}) with the schema of the handler.
Issues(h, input) ==
  CASE h = "list" -> QueryIssues(input)
    [] h = "get" -> GetIssues(input)
    [] h = "related" -> RelatedIssues(input)
    [] h = "addItem" -> BodyIssues(input)

Validated(h, input) ==
  CASE h = "list" -> QueryParams(input)
    [] h = "get" -> GetParams(input)
    [] h = "related" -> RelatedParams(input)
    [] h = "addItem" -> BodyParams(input)

\* A handler up to its await: operation.read or operation.create, and
\* next(error) when the validation fails.
Handle(h, input) ==
  /\ req.stage = "idle"
  /\ req' = IF Issues(h, input) = {}
              THEN [handler |-> h, stage |-> "validated", input |-> input,
                    issues |-> {}, params |-> Validated(h, input),
                    error |-> NoErrorObject, caught |-> NoErrorObject,
                    calls |-> calls]
              ELSE [handler |-> h, stage |-> "next", input |-> input,
                    issues |-> Issues(h, input), params |-> <<>>,
                    error |-> ZodError, caught |-> NoErrorObject,
                    calls |-> calls]
  /\ UNCHANGED <<catalog, tables, pc, arg, locals, undo, ret, before, added,
                 calls, changes, db, res, nodeEnv>>

\* dbRequest fails outside the procedure: the connection is lost.
ExecuteFails ==
  /\ req.stage = "validated"
  /\ req.handler # "addItem"
  /\ routine = ""
  /\ routine' = RoutineOf(req.handler)
  /\ parameters' = req.params
  /\ result' = Thrown(NULL, "connectionLost")
  /\ UNCHANGED <<catalog, tables, pc, arg, locals, undo, ret, before, added,
                 calls, changes, http>>

\* What the service of the handler returns from the record sets.
DataOf(h, recordsets) ==
  CASE h = "list" -> {[products |-> recordsets[1], pagination |-> recordsets[2][1]]}
    [] h = "get" ->
         {[product |-> recordsets[1][1], images |-> recordsets[2],
           flavors |-> recordsets[3], sizes |-> recordsets[4],
           reviews |-> recordsets[5],
           confectioner |-> IF Len(recordsets[6]) = 0 THEN NULL
                            ELSE {recordsets[6][1]}]}
    [] h = "related" -> IF Len(recordsets) = 0 THEN NULL ELSE {recordsets[1]}

\* What the await of the handler ends in: the data, or the error thrown.
Outcome ==
  IF req.handler = "addItem"
    THEN [thrown |-> ret[SeqConn].number # 0,
          error |-> RequestError({ret[SeqConn].number}, ret[SeqConn].message),
          data |-> ret[SeqConn].row]
    ELSE [thrown |-> result.thrown,
          error |-> RequestError(result.number, result.message),
          data |-> IF result.thrown THEN NULL
                   ELSE DataOf(req.handler, result.recordsets)]

\* A catch that passes the error it caught to next.
ForwardedErrorItself(error) == error

\* catch: next(StatusGeneralError) for an error that is no domain error.
ForwardedError(error) == StatusGeneralError

\* res.json(successResponse(data)).
SuccessResponse(data) ==
  [status |-> 200, message |-> "", details |-> NULL, data |-> data]

\* res.status(400).json(errorResponse(error.message)).
DomainErrorResponse(error) ==
  [status |-> 400, message |-> error.message, details |-> NULL, data |-> NULL]

\* A handler after its await: the response, or next for the error middleware.
Respond ==
  /\ req.stage = "validated"
  /\ IF req.handler = "addItem" THEN pc[SeqConn] = "done" ELSE routine # ""
  /\ IF ~Outcome.thrown
       THEN /\ res' = SuccessResponse(Outcome.data)
            /\ req' = [req EXCEPT !.stage = "sent"]
       ELSE IF Outcome.error.number = {DomainError}
         THEN /\ res' = DomainErrorResponse(Outcome.error)
              /\ req' = [req EXCEPT !.stage = "sent", !.caught = Outcome.error]
         ELSE /\ req' = [req EXCEPT !.stage = "next", !.caught = Outcome.error,
                                    !.error = ForwardedError(Outcome.error)]
              /\ UNCHANGED res
  /\ UNCHANGED <<catalog, tables, pc, arg, locals, undo, ret, before, added,
                 calls, changes, db, nodeEnv>>

\* errorMiddleware(error, req, res, next).
ErrorMiddleware ==
  /\ req.stage = "next"
  /\ res' = [status |-> IF req.error.statusCode # NULL
                          THEN Val(req.error.statusCode) ELSE 500,
             message |-> IF req.error.message # "" THEN req.error.message
                         ELSE "internalServerError",
             details |-> IF nodeEnv = "development" THEN req.error.stack ELSE NULL,
             data |-> NULL]
  /\ req' = [req EXCEPT !.stage = "sent"]
  /\ UNCHANGED <<catalog, tables, pc, arg, locals, undo, ret, before, added,
                 calls, changes, db, nodeEnv>>

\* The response is with the client; the next request can come.
Finish ==
  /\ req.stage = "sent"
  /\ pc[SeqConn] = "idle"
  /\ routine = ""
  /\ req' = NoHttpRequest
  /\ res' = NoResponse
  /\ UNCHANGED <<catalog, tables, pc, arg, locals, undo, ret, before, added,
                 calls, changes, db, nodeEnv>>

\* ----------------------------------------------------------------- requests

\* The most calls of spCartItemAdd the requests of a run make.
MaxHttpCalls == 2

\* A body of POST /cart/item that passes bodySchema.
ValidBody ==
  [sessionId |-> Text("s1"), idProduct |-> Num(1), idFlavor |-> Num(1),
   idSize |-> Num(1), quantity |-> Num(2), observations |-> NoText]

\* The bodies of POST /cart/item: the ones that pass bodySchema, to products
\* and sizes the procedure accepts and rejects; the valid body with one key
\* that fails; bodies in which several keys fail.
Bodies ==
  [sessionId : {Text("s1")},
   idProduct : {Num(1), Str(<<"2">>), Num(3)},
   idFlavor : {Num(1)},
   idSize : {Num(1), Num(4)},
   quantity : {Num(2), Num(8), Str(<<"1", "0">>)},
   observations : {NoText, Text("no nuts")}]
  \cup {[ValidBody EXCEPT !.sessionId = v] :
          v \in {NoText, NullText, NotText, Text(""), Text(LongSessionId)}}
  \cup {[ValidBody EXCEPT !.idProduct = v] :
          v \in {Num(0), Num(-1), Tenths(15), Undefined, JsonNull,
                 Str(<<>>), Str(<<"x">>), Str(<<"-", "1">>), Str(<<"1", ".", "5">>)}}
  \cup {[ValidBody EXCEPT !.idFlavor = v] : v \in {Num(0), Undefined}}
  \cup {[ValidBody EXCEPT !.idSize = v] : v \in {Num(0), Undefined}}
  \cup {[ValidBody EXCEPT !.quantity = v] :
          v \in {Num(0), Num(11), Num(-1), Tenths(25), Undefined, JsonNull,
                 Str(<<"0">>), Str(<<"1", "1">>)}}
  \cup {[ValidBody EXCEPT !.observations = v] :
          v \in {NullText, NotText, Text(LongObservations)}}
  \cup [sessionId : {Text("")}, idProduct : {Num(0), Num(6)}, idFlavor : {Num(1)},
        idSize : {Num(1)}, quantity : {Num(0), Num(11)}, observations : {NoText}]

\* The query of GET /product with no key.
NoQuery ==
  [page |-> Undefined, pageSize |-> Undefined, sortBy |-> NoText,
   categoryIds |-> Undefined, flavorIds |-> Undefined, sizeIds |-> Undefined,
   minPrice |-> Undefined, maxPrice |-> Undefined, confectionerIds |-> Undefined,
   availability |-> NoText, searchTerm |-> Undefined]

\* A text of n characters.
LongText(n) == [i \in 1..n |-> "1"]

\* The parameters of GET /product: pages, page sizes, orders and availabilities
\* with the four ID lists all absent or all null; filters with page sizes in
\* and out of the allowed ones.
Queries ==
  {[NoQuery EXCEPT !.page = pg, !.pageSize = sz, !.sortBy = srt,
                   !.availability = av, !.categoryIds = ids, !.flavorIds = ids,
                   !.sizeIds = ids, !.confectionerIds = ids] :
     pg \in {Undefined, Str(<<"2">>), Str(<<"0">>), Str(<<"x">>)},
     sz \in {Undefined, Str(<<"2", "4">>), Str(<<"1", "0">>), Str(<<"1", "2", ".", "5">>)},
     srt \in {NoText, Text("preco_menor"), Text("x")},
     av \in {NoText, Text("todos"), Text("x")},
     ids \in {Undefined, JsonNull}}
  \cup
  {[NoQuery EXCEPT !.pageSize = sz, !.categoryIds = cat, !.flavorIds = flv,
                   !.sizeIds = JsonNull, !.confectionerIds = Str(One),
                   !.minPrice = mn, !.searchTerm = st] :
     sz \in {Undefined, Str(<<"1", "0">>), Num(36)},
     cat \in {Undefined, JsonNull, Str(One), Str(<<"x">>), Str(LongText(501))},
     flv \in {JsonNull, Str(One)},
     mn \in {Undefined, Str(<<"1", "5">>), Str(<<"-", "1">>)},
     st \in {Undefined, Str(<<"b", "o">>), Str(LongText(101))}}

\* The parameters of GET /product/:id.
GetRequests ==
  [id : {Str(<<"1">>), Str(<<"3">>), Str(<<"6">>), Str(<<"0">>), Str(<<"x">>)}]

\* The parameters of GET /product/:id/related.
RelatedRequests ==
  [id : {Str(<<"1">>), Str(<<"3">>), Str(<<"6">>), Str(<<"0">>), Str(<<"x">>)},
   limit : {Undefined, Str(<<"2">>), Str(<<"0">>)},
   criteria : {NoText, Text("confeiteiro"), Text("popularidade"), Text("sabor"),
               Text("x")}]

\* Keys no schema knows, as a request can carry them in its query or body.
UnknownKeys ==
  {[idAccount |-> Num(2)], [idAccount |-> Num(2), idUser |-> Num(7)]}

\* Requests with keys the schema of the handler does not know.
Tampered(h) ==
  CASE h = "list" ->
         {u @@ q : u \in UnknownKeys,
                   q \in {NoQuery, [NoQuery EXCEPT !.availability = Text("todos")]}}
    [] h = "get" -> {u @@ [id |-> Str(<<"1">>)] : u \in UnknownKeys}
    [] h = "related" ->
         {u @@ [id |-> Str(<<"1">>), limit |-> Undefined, criteria |-> NoText] :
            u \in UnknownKeys}
    [] h = "addItem" ->
         {u @@ b : u \in UnknownKeys,
                   b \in {ValidBody, [ValidBody EXCEPT !.idProduct = Num(3)]}}

\* The requests the router takes to each handler.
Inputs(h) ==
  Tampered(h) \cup
    CASE h = "list" -> Queries
      [] h = "get" -> GetRequests
      [] h = "related" -> RelatedRequests
      [] h = "addItem" -> Bodies

\* ------------------------------------------------------------ specification

\* No call and no request has been made.
InitCalls ==
  /\ cart = {}
  /\ cartItem = {}
  /\ identCart = 0
  /\ identCartItem = 0
  /\ pc = [c \in Conns |-> "idle"]
  /\ arg = [c \in Conns |-> NoRequest]
  /\ idCart = [c \in Conns |-> NULL]
  /\ unitPrice = [c \in Conns |-> NULL]
  /\ totalPrice = [c \in Conns |-> NULL]
  /\ idCartItem = [c \in Conns |-> NULL]
  /\ existingQuantity = [c \in Conns |-> NULL]
  /\ undo = [c \in Conns |-> NoUndo]
  /\ ret = [c \in Conns |-> NoReturn]
  /\ before = [c \in Conns |-> NoTables]
  /\ added = <<>>
  /\ calls = 0
  /\ changes = 0
  /\ routine = ""
  /\ parameters = <<>>
  /\ result = NoResult
  /\ req = NoHttpRequest
  /\ res = NoResponse

InitCatalog ==
  /\ product = InitProduct
  /\ size = InitSize
  /\ productFlavor = InitProductFlavor
  /\ productSize = InitProductSize
  /\ confectioner = InitConfectioner
  /\ productImage = InitProductImage
  /\ flavor = InitFlavor
  /\ review = InitReview

Init ==
  /\ InitCatalog
  /\ InitCalls
  /\ nodeEnv = "production"

\* Connections whose calls overlap; the catalog does not change.
Next ==
  \/ \E c \in Conns, r \in Requests : calls < MaxCalls /\ Begin(c, r)
  \/ \E c \in Conns : SelectCart(c)
  \/ \E c \in Conns : InsertCart(c)
  \/ \E c \in Conns : ComputePrice(c)
  \/ \E c \in Conns : SelectItem(c)
  \/ \E c \in Conns : Merge(c)
  \/ \E c \in Conns : InsertItem(c)
  \/ \E c \in Conns : Commit(c)
  \/ \E c \in Conns : SelectResult(c)
  \/ \E c \in Conns : Return(c)

Spec == Init /\ [][Next]_vars

\* One call at a time; the catalog does not change.
NextSeq ==
  \/ \E r \in SeqRequests : calls < MaxSeqCalls /\ Begin(SeqConn, r)
  \/ SelectCart(SeqConn)
  \/ InsertCart(SeqConn)
  \/ ComputePrice(SeqConn)
  \/ SelectItem(SeqConn)
  \/ Merge(SeqConn)
  \/ InsertItem(SeqConn)
  \/ Commit(SeqConn)
  \/ SelectResult(SeqConn)
  \/ Return(SeqConn)

SpecSeq == Init /\ [][NextSeq]_vars

\* One call at a time; prices change between its statements.
NextCatalog ==
  \/ \E r \in CatalogRequests : calls < MaxSeqCalls /\ Begin(SeqConn, r)
  \/ SelectCart(SeqConn)
  \/ InsertCart(SeqConn)
  \/ ComputePrice(SeqConn)
  \/ SelectItem(SeqConn)
  \/ Merge(SeqConn)
  \/ InsertItem(SeqConn)
  \/ Commit(SeqConn)
  \/ SelectResult(SeqConn)
  \/ Return(SeqConn)
  \/ ChangeBasePrice
  \/ ChangePromotion
  \/ ChangePriceModifier

SpecCatalog == Init /\ [][NextCatalog]_vars

\* Every connection calls for a session of its own: the calls of a session do
\* not overlap, the calls of different sessions do.
SessionOf(c) == IF c = SeqConn THEN "s1" ELSE "s2"

NextSessions ==
  \/ \E c \in Conns, r \in SessionRequests :
       /\ calls < MaxSessionCalls
       /\ r.sessionId = SessionOf(c)
       /\ Begin(c, r)
  \/ \E c \in Conns : SelectCart(c)
  \/ \E c \in Conns : InsertCart(c)
  \/ \E c \in Conns : ComputePrice(c)
  \/ \E c \in Conns : SelectItem(c)
  \/ \E c \in Conns : Merge(c)
  \/ \E c \in Conns : InsertItem(c)
  \/ \E c \in Conns : Commit(c)
  \/ \E c \in Conns : SelectResult(c)
  \/ \E c \in Conns : Return(c)

SpecSessions == Init /\ [][NextSessions]_vars

\* The procedures that read the catalog, called one at a time.
InitQuery ==
  /\ product = CatalogProduct
  /\ size = CatalogSize
  /\ flavor = CatalogFlavor
  /\ review = InitReview
  /\ productFlavor = CatalogProductFlavor
  /\ productSize = CatalogProductSize
  /\ confectioner = InitConfectioner
  /\ productImage = CatalogProductImage
  /\ InitCalls
  /\ nodeEnv = "production"

NextQuery ==
  \/ \E p \in ListParameters : ExecuteProductList(p)
  \/ \E p \in RelatedParameters : ExecuteProductRelated(p)
  \/ \E p \in GetParameters : ExecuteProductGet(p)
  \/ Resolve

SpecQuery == InitQuery /\ [][NextQuery]_vars

\* The requests of one client, one at a time, in development and in
\* production; the reading requests come before the first call of
\* spCartItemAdd.
InitHttp ==
  /\ InitCatalog
  /\ InitCalls
  /\ nodeEnv \in {"production", "development"}

NextHttp ==
  \/ \E h \in Handlers : \E input \in Inputs(h) :
       /\ IF h = "addItem" THEN calls < MaxHttpCalls ELSE calls = 0
       /\ Handle(h, input)
  \/ req.stage = "validated" /\ req.handler = "list" /\ ExecuteProductList(req.params)
  \/ req.stage = "validated" /\ req.handler = "get" /\ ExecuteProductGet(req.params)
  \/ req.stage = "validated" /\ req.handler = "related" /\ ExecuteProductRelated(req.params)
  \/ ExecuteFails
  \/ req.stage = "validated" /\ req.handler = "addItem" /\ Begin(SeqConn, req.params)
  \/ SelectCart(SeqConn)
  \/ InsertCart(SeqConn)
  \/ ComputePrice(SeqConn)
  \/ SelectItem(SeqConn)
  \/ Merge(SeqConn)
  \/ InsertItem(SeqConn)
  \/ Commit(SeqConn)
  \/ SelectResult(SeqConn)
  \/ Respond
  \/ ErrorMiddleware
  \/ req.stage = "sent" /\ Return(SeqConn)
  \/ req.stage = "sent" /\ Resolve
  \/ Finish

SpecHttp == InitHttp /\ [][NextHttp]_vars

\* ------------------------------------------------------------------ claims

\* The cartItem rows, among items and carts, of the tuple
\* t = (tenant, session, product, flavor, size).
TupleItems(t, carts, items) ==
  {crtItm \in items :
     /\ crtItm.idAccount = t[1]
     /\ crtItm.idProduct = t[3]
     /\ crtItm.idFlavor = t[4]
     /\ crtItm.idSize = t[5]
     /\ \E crt \in carts :
          /\ crt.idCart = crtItm.idCart
          /\ crt.idAccount = t[1]
          /\ crt.sessionId = t[2]}

\* Connection c has the result or the error of its call.
Done(c) == pc[c] = "done"

Failed(c) == Done(c) /\ ret[c].number # 0

Succeeded(c) == Done(c) /\ ret[c].number = 0

\* The catalog as the claims describe it.
LiveProduct(r) ==
  \E prd \in product :
    prd.idAccount = r.idAccount /\ prd.idProduct = r.idProduct /\ ~prd.deleted

SellableProduct(r) ==
  \E prd \in product :
    /\ prd.idAccount = r.idAccount /\ prd.idProduct = r.idProduct /\ ~prd.deleted
    /\ prd.available /\ prd.stock # 0

EnabledFlavor(r) ==
  \E prdFlv \in productFlavor :
    /\ prdFlv.idAccount = r.idAccount /\ prdFlv.idProduct = r.idProduct
    /\ prdFlv.idFlavor = r.idFlavor /\ prdFlv.available

EnabledSize(r) ==
  \E prdSiz \in productSize :
    /\ prdSiz.idAccount = r.idAccount /\ prdSiz.idProduct = r.idProduct
    /\ prdSiz.idSize = r.idSize /\ prdSiz.available

\* C1: calls that do not overlap, catalog unchanged: between calls every tuple
\* some call succeeded for has exactly one cartItem row, whose quantity is the
\* sum of the quantities of the calls that succeeded for it and whose
\* totalPrice is unitPrice times that quantity; no other tuple has a row.
C1_OneRowWithSummedQuantity ==
  pc[SeqConn] \in {"idle", "result", "done"} =>
    /\ \A t \in DOMAIN added :
         /\ Cardinality(TupleItems(t, cart, cartItem)) = 1
         /\ \A crtItm \in TupleItems(t, cart, cartItem) :
              /\ crtItm.quantity = added[t]
              /\ crtItm.totalPrice = crtItm.unitPrice * added[t]
    /\ \A crtItm \in cartItem :
         \E t \in DOMAIN added : crtItm \in TupleItems(t, cart, cartItem)

\* Adds of 3 then 4 have given one row with quantity 7 and totalPrice 25 * 7.
C1_Witness ==
  /\ Succeeded(SeqConn)
  /\ arg[SeqConn].quantity = 4
  /\ added[TupleOf(arg[SeqConn])] = 7
  /\ \E crtItm \in cartItem :
       /\ TupleItems(TupleOf(arg[SeqConn]), cart, cartItem) = {crtItm}
       /\ crtItm.quantity = 7
       /\ crtItm.totalPrice = 175

\* C2: a call whose tuple had a row with quantity e when it began, and whose
\* quantity q has e + q > 10, ends in the domain error quantityExceedsMaximum,
\* and the row is as it was (quantity, totalPrice, observations and all).
C2_ExceedingMergeFails ==
  \A c \in Conns :
    Done(c) =>
      \A crtItm \in TupleItems(TupleOf(arg[c]), before[c].cart, before[c].cartItem) :
        crtItm.quantity + arg[c].quantity > 10 =>
          /\ ret[c].number = 51000
          /\ ret[c].message = "quantityExceedsMaximum"
          /\ crtItm \in cartItem
          /\ TupleItems(TupleOf(arg[c]), cart, cartItem) = {crtItm}

\* A row with quantity 8 and observations, a call with quantity 5 and none.
C2_Witness ==
  /\ Failed(SeqConn)
  /\ arg[SeqConn].quantity = 5
  /\ arg[SeqConn].observations = NULL
  /\ \E crtItm \in TupleItems(TupleOf(arg[SeqConn]), cart, cartItem) :
       crtItm.quantity = 8 /\ crtItm.observations # NULL

\* The call of connection c wrote nothing: the rows and the identity values
\* are those it began with.
NoWrites(c) ==
  /\ cart = before[c].cart
  /\ cartItem = before[c].cartItem
  /\ identCart = before[c].identCart
  /\ identCartItem = before[c].identCartItem

\* C3: a call for a product that is missing, soft-deleted, not available or
\* out of stock, or for a flavor or size that is not associated or disabled,
\* fails and has written nothing: no cart row and no cartItem row.
C3_RejectedCallWritesNothing ==
  \A c \in Conns :
    (Done(c) /\ ~(SellableProduct(arg[c]) /\ EnabledFlavor(arg[c]) /\ EnabledSize(arg[c])))
      => Failed(c) /\ NoWrites(c)

\* The product out of stock, asked for by a session with no cart.
C3_Witness ==
  /\ Failed(SeqConn)
  /\ arg[SeqConn].idProduct = 5
  /\ EnabledFlavor(arg[SeqConn]) /\ EnabledSize(arg[SeqConn])
  /\ ret[SeqConn].message = "productNotAvailable"
  /\ CartsOf(arg[SeqConn]) = {}
  /\ cartItem # {}

\* C4: at most one committed cartItem row per (cart, product, flavor, size).
C4_OneRowPerCombination ==
  \A a, b \in CommittedCartItem :
    (/\ a.idCart = b.idCart
     /\ a.idProduct = b.idProduct
     /\ a.idFlavor = b.idFlavor
     /\ a.idSize = b.idSize) => a = b

\* C5: at most one committed cart row per (tenant, session), and only for a
\* pair some add has committed for.
C5_OneCartPerSession ==
  /\ \A a, b \in CommittedCart :
       (a.idAccount = b.idAccount /\ a.sessionId = b.sessionId) => a = b
  /\ \A crt \in CommittedCart :
       \E t \in DOMAIN added : t[1] = crt.idAccount /\ t[2] = crt.sessionId

\* C6: every cartItem row, committed or not, has a quantity from 1 to 10.
C6_QuantityInRange ==
  \A crtItm \in cartItem \cup CommittedCartItem : crtItm.quantity \in 1..10

\* A row merged up to 10 while a call with quantity 11 has failed.
C6_Witness ==
  /\ \E crtItm \in cartItem : crtItm.quantity = 10
  /\ \E c \in Conns : Failed(c) /\ arg[c].quantity = 11
  /\ \E c \in Conns : pc[c] \notin {"idle", "done"}

\* C7: every cartItem row has totalPrice = unitPrice * quantity.
C7_TotalIsUnitTimesQuantity ==
  \A crtItm \in cartItem : crtItm.totalPrice = crtItm.unitPrice * crtItm.quantity

\* C8: the row a call has inserted has the product's effective price
\* (promotionalPrice when isPromotion, else basePrice) plus the size's
\* priceModifier as unitPrice, and unitPrice times the quantity asked for as
\* totalPrice.
C8_InsertedPrice ==
  \A c \in Conns :
    pc[c] = "commit" =>
      \A crtItm \in cartItem :
        crtItm.idCartItem \in undo[c].itemIns =>
          /\ crtItm.totalPrice = crtItm.unitPrice * arg[c].quantity
          /\ \E prd \in product, siz \in size :
               /\ prd.idProduct = arg[c].idProduct
               /\ siz.idSize = arg[c].idSize
               /\ \/ /\ prd.isPromotion
                     /\ prd.promotionalPrice # NULL
                     /\ crtItm.unitPrice = Val(prd.promotionalPrice) + siz.priceModifier
                  \/ /\ ~prd.isPromotion
                     /\ crtItm.unitPrice = prd.basePrice + siz.priceModifier

\* basePrice 20, no promotion, modifier 5, quantity 2: unitPrice 25, totalPrice 50.
C8_Witness ==
  /\ pc[SeqConn] = "commit"
  /\ arg[SeqConn].quantity = 2
  /\ \E crtItm \in cartItem :
       /\ crtItm.idCartItem \in undo[SeqConn].itemIns
       /\ crtItm.idProduct = 1
       /\ crtItm.unitPrice = 25
       /\ crtItm.totalPrice = 50

\* C9: a call that ended in an error has left cart and cartItem as they were
\* when it began; a call that returned a row has committed its writes: the
\* row is in cartItem, its cart is in cart, and nothing is left to undo.
C9_Atomic ==
  \A c \in Conns :
    /\ Failed(c) => /\ cart = before[c].cart
                    /\ cartItem = before[c].cartItem
                    /\ undo[c] = NoUndo
    /\ Succeeded(c) =>
         /\ undo[c] = NoUndo
         /\ \A row \in ret[c].row :
              /\ \E crtItm \in cartItem : CartItemResult(crtItm) = row
              /\ \E crt \in cart : crt.idCart = row.idCart
         /\ ret[c].row # NULL

\* An error raised after the cart row of a new session was inserted.
C9_Witness ==
  /\ Failed(SeqConn)
  /\ ret[SeqConn].number # 51000
  /\ identCart > before[SeqConn].identCart
  /\ CartsOf(arg[SeqConn]) = {}

\* C10, as claimed: a missing or soft-deleted product always yields
\* productDoesntExist, a product that is not available or out of stock always
\* productNotAvailable, and sizeNotAvailable only comes after the product and
\* flavor checks passed.
C10_FixedOrder ==
  \A c \in Conns :
    Done(c) =>
      /\ ~LiveProduct(arg[c]) => ret[c].message = "productDoesntExist"
      /\ (LiveProduct(arg[c]) /\ ~SellableProduct(arg[c]))
           => ret[c].message = "productNotAvailable"
      /\ ret[c].message = "sizeNotAvailable"
           => SellableProduct(arg[c]) /\ EnabledFlavor(arg[c])

\* The parameters of the call pass the parameter validation of the procedure.
ValidParams(r) == r.sessionId # "" /\ r.quantity >= 1 /\ r.quantity <= 10

\* C10, amended: for a call whose parameters pass the parameter validation,
\* the error is that of the first failing check in the order product
\* existence, product availability, flavor, size, merged quantity.
C10_FixedOrderAfterParams ==
  \A c \in Conns :
    (Done(c) /\ ValidParams(arg[c])) =>
      /\ ~LiveProduct(arg[c]) => ret[c].message = "productDoesntExist"
      /\ (LiveProduct(arg[c]) /\ ~SellableProduct(arg[c]))
           => ret[c].message = "productNotAvailable"
      /\ (SellableProduct(arg[c]) /\ ~EnabledFlavor(arg[c]))
           => ret[c].message = "flavorNotAvailable"
      /\ (SellableProduct(arg[c]) /\ EnabledFlavor(arg[c]) /\ ~EnabledSize(arg[c]))
           => ret[c].message = "sizeNotAvailable"
      /\ ret[c].message = "sizeNotAvailable"
           => SellableProduct(arg[c]) /\ EnabledFlavor(arg[c])
      /\ ret[c].message = "quantityExceedsMaximum"
           => SellableProduct(arg[c]) /\ EnabledFlavor(arg[c]) /\ EnabledSize(arg[c])

\* The product that is not available, asked for in a disabled flavor and a
\* disabled size.
C10_Witness ==
  /\ Failed(SeqConn)
  /\ arg[SeqConn].idProduct = 4
  /\ ~EnabledFlavor(arg[SeqConn])
  /\ ~EnabledSize(arg[SeqConn])
  /\ ret[SeqConn].message = "productNotAvailable"

\* ------------------------------------------------- claims on the listings

\* dbRequest has the record sets of spProductList: the page and the pagination.
ListReturned == routine = "spProductList" /\ ~result.thrown

ListPage == result.recordsets[1]

ListPagination == result.recordsets[2][1]

\* dbRequest has the record set of a branch of spProductRelated.
RelatedReturned ==
  routine = "spProductRelated" /\ ~result.thrown /\ Len(result.recordsets) = 1

RelatedPage == result.recordsets[1]

\* The row of functional.product with a product id.
ProductOf(id) == CHOOSE prd \in product : prd.idProduct = id

\* The page size the claims describe: the requested one if it is 12, 24 or
\* 36, and 12 otherwise.
ClaimedPageSize ==
  IF parameters.pageSize \in {12, 24, 36} THEN parameters.pageSize ELSE 12

\* C13: spProductList returns at most pageSize rows and totalPages is the
\* ceiling of totalItems / pageSize, the least number of pages of pageSize
\* rows that hold totalItems rows, for the page size after defaulting.
C13_PageAndTotalPages ==
  ListReturned =>
    /\ Len(ListPage) <= ClaimedPageSize
    /\ ListPagination.pageSize = ClaimedPageSize
    /\ ListPagination.totalPages * ClaimedPageSize >= ListPagination.totalItems
    /\ (ListPagination.totalPages - 1) * ClaimedPageSize < ListPagination.totalItems

\* A full first page of a listing of two pages whose page size was defaulted.
C13_Witness ==
  /\ ListReturned
  /\ parameters.pageSize = 10
  /\ Len(ListPage) = 12
  /\ ListPagination.totalItems > 12
  /\ ListPagination.totalPages = 2

\* C14: with availability 'disponivel' no returned product has stock = 0 or
\* available = false; with 'indisponivel' no returned product has both
\* available = true and stock > 0.
C14_AvailabilityFilter ==
  ListReturned =>
    \A i \in 1..Len(ListPage) :
      /\ parameters.availability = "disponivel" =>
           /\ ProductOf(ListPage[i].idProduct).stock # 0
           /\ ProductOf(ListPage[i].idProduct).available
      /\ parameters.availability = "indisponivel" =>
           ~(/\ ProductOf(ListPage[i].idProduct).available
             /\ ProductOf(ListPage[i].idProduct).stock > 0)

\* A listing of the unavailable products that returns a product out of stock
\* and one that is not available.
C14_Witness ==
  /\ ListReturned
  /\ parameters.availability = "indisponivel"
  /\ \E i \in 1..Len(ListPage) : /\ ProductOf(ListPage[i].idProduct).stock = 0
                                 /\ ProductOf(ListPage[i].idProduct).available
  /\ \E i \in 1..Len(ListPage) : ~ProductOf(ListPage[i].idProduct).available

\* The products a call with parameters p counts.
CountedProducts(p) ==
  {j.prd.idProduct : j \in {k \in ProductConfectioner : CountWhere(p, k)}}

\* C15: the products matched by availability 'indisponivel' are those matched
\* by 'todos' that 'disponivel' does not match, the other filters equal,
\* whatever the stock of a product is.
C15_UnavailableIsTheRest ==
  (ListReturned /\ parameters.availability = "indisponivel") =>
    LET rest == CountedProducts([parameters EXCEPT !.availability = "todos"]) \
                CountedProducts([parameters EXCEPT !.availability = "disponivel"])
    IN  /\ ListPagination.totalItems = Cardinality(rest)
        /\ \A i \in 1..Len(ListPage) : ListPage[i].idProduct \in rest

\* The price rule of a returned row for its product.
PriceRule(row) ==
  LET prd == ProductOf(row.idProduct)
  IN  /\ prd.isPromotion => row.price = prd.promotionalPrice
      /\ ~prd.isPromotion => row.price = {prd.basePrice}
      /\ prd.promotionalPrice # {prd.basePrice} =>
           (row.price = prd.promotionalPrice <=> prd.isPromotion)
      /\ prd.isPromotion => row.originalPrice = {prd.basePrice}
      /\ ~prd.isPromotion => row.originalPrice = NULL

\* C16: in every row of spProductList and spProductRelated, price is the
\* promotional price if and only if isPromotion is set and the base price
\* otherwise, originalPrice is the base price when isPromotion is set and NULL
\* otherwise, and a row returned under minPrice or maxPrice has that price
\* within them.
C16_EffectivePrice ==
  /\ ListReturned =>
       \A i \in 1..Len(ListPage) :
         /\ PriceRule(ListPage[i])
         /\ parameters.minPrice # NULL =>
              \E v \in ListPage[i].price : v >= Val(parameters.minPrice)
         /\ parameters.maxPrice # NULL =>
              \E v \in ListPage[i].price : v <= Val(parameters.maxPrice)
  /\ RelatedReturned => \A i \in 1..Len(RelatedPage) : PriceRule(RelatedPage[i])

\* A listing with a minimum price that returns a product on promotion whose
\* base price and promotional price differ.
C16_Witness ==
  /\ ListReturned
  /\ parameters.minPrice # NULL
  /\ \E i \in 1..Len(ListPage) :
       /\ ListPage[i].isPromotion
       /\ ListPage[i].price # ListPage[i].originalPrice

\* C17: spProductRelated never returns the reference product; with criteria
\* 'categoria' every returned product has the category of the reference
\* product, with 'confeiteiro' its confectioner.
C17_RelatedToReference ==
  RelatedReturned =>
    \A i \in 1..Len(RelatedPage) :
      /\ RelatedPage[i].idProduct # Val(parameters.idProduct)
      /\ parameters.criteria = "categoria" =>
           ProductOf(RelatedPage[i].idProduct).idCategory =
             ProductOf(Val(parameters.idProduct)).idCategory
      /\ parameters.criteria = "confeiteiro" =>
           ProductOf(RelatedPage[i].idProduct).idConfectioner =
             ProductOf(Val(parameters.idProduct)).idConfectioner

\* Products related by confectioner to a reference product that is itself
\* available and in stock, with room left under the limit.
C17_Witness ==
  /\ RelatedReturned
  /\ parameters.criteria = "confeiteiro"
  /\ ProductOf(Val(parameters.idProduct)).available
  /\ ProductOf(Val(parameters.idProduct)).stock > 0
  /\ Len(RelatedPage) > 0
  /\ Len(RelatedPage) < parameters.limit

\* The limit the claims describe: the requested one if it is positive, and
\* the default of 4 otherwise.
ClaimedLimit == IF parameters.limit >= 1 THEN parameters.limit ELSE 4

\* The products spProductRelated chooses among: the products of the account
\* other than the reference product that are not deleted, available and in
\* stock, of a confectioner that is not deleted, and of the category or the
\* confectioner of the reference product when that is the criteria.
RelatedCandidates ==
  {prd \in product :
     /\ prd.idAccount = Val(parameters.idAccount)
     /\ prd.idProduct # Val(parameters.idProduct)
     /\ ~prd.deleted /\ prd.available /\ prd.stock > 0
     /\ \E cnf \in confectioner :
          /\ cnf.idAccount = prd.idAccount
          /\ cnf.idConfectioner = prd.idConfectioner
          /\ ~cnf.deleted
     /\ parameters.criteria \notin {"confeiteiro", "popularidade"} =>
          prd.idCategory = ProductOf(Val(parameters.idProduct)).idCategory
     /\ parameters.criteria = "confeiteiro" =>
          prd.idConfectioner = ProductOf(Val(parameters.idProduct)).idConfectioner}

\* Product a ranks strictly above product b under the claimed order.
RanksAbove(a, b) ==
  IF parameters.criteria = "popularidade"
    THEN \/ a.totalSales > b.totalSales
         \/ a.totalSales = b.totalSales /\ a.averageRating > b.averageRating
    ELSE \/ a.averageRating > b.averageRating
         \/ a.averageRating = b.averageRating /\ a.totalSales > b.totalSales

Answered == req.stage = "sent" /\ res.status # 0

\* The routine of the request has not been called.
RoutineNotCalled == routine = "" /\ calls = req.calls /\ pc[SeqConn] = "idle"

\* C11: a request whose parameters fail the schema of its handler is answered
\* with status 400, and the routine is not called for it.
C11_ValidationFailureIs400 ==
  (Answered /\ req.issues # {}) => (res.status = 400 /\ RoutineNotCalled)

\* The routine of the request threw the error req.caught.
RoutineThrew == Answered /\ req.issues = {} /\ req.caught # NoErrorObject

DefaultListParameters ==
  [idAccount |-> {1}, page |-> 1, pageSize |-> 12, sortBy |-> "relevancia",
   categoryIds |-> NULL, flavorIds |-> NULL, sizeIds |-> NULL, minPrice |-> NULL,
   maxPrice |-> NULL, confectionerIds |-> NULL, availability |-> "disponivel",
   searchTerm |-> NULL]

\* C19: a request of GET /product with no query parameter passes the
\* validation and is served the listing of page 1 with page size 12, ordered
\* by relevance, of the available products, with no ID list constraint.
C19_NoParameterIsServedDefaults ==
  (Answered /\ req.handler = "list" /\ req.input = NoQuery) =>
    /\ req.issues = {}
    /\ res.status = 200 =>
         res.data \in {DataOf("list", r.recordsets) :
                         r \in spProductList(DefaultListParameters)}
    /\ res.status = 200 \/ req.caught.message = "connectionLost"

\* C20: a request of GET /product whose pageSize is not one of 12, 24, 36, its
\* other parameters passing the validation, is not rejected: it is served with
\* page size 12.
C20_OtherPageSizeIsServed12 ==
  (Answered /\ req.handler = "list" /\ req.issues \subseteq {"pageSize"}
     /\ req.input.pageSize.t # "undefined"
     /\ ~(IsInt(req.input.pageSize) /\ IntOf(req.input.pageSize) \in PageSizes)) =>
    /\ req.issues = {}
    /\ res.status = 200 => Val(res.data).pagination.pageSize = 12
    /\ res.status = 200 \/ req.caught.message = "connectionLost"

\* ---------------------------------------------------- claims of the catalog

\* The rows of pages 1..n of the listing with parameters p, one call for each
\* page, in every order the ORDER BY of the calls allows.
RECURSIVE FirstPages(_, _)
FirstPages(p, n) ==
  IF n = 0 THEN {<<>>}
  ELSE {a \o b : a \in FirstPages(p, n - 1),
                 b \in ListPages([p EXCEPT !.page = n])}

\* C21: the rows of pages 1..totalPages of a listing are the products the
\* count query counts, each of them once, and there are totalItems of them.
C21_PagesAreTheCount ==
  ListReturned =>
    \A rows \in FirstPages(parameters, ListPagination.totalPages) :
      /\ Len(rows) = ListPagination.totalItems
      /\ \A i \in 1..Len(rows) : rows[i].idProduct \in CountedProducts(parameters)
      /\ \A id \in CountedProducts(parameters) :
           Cardinality({i \in 1..Len(rows) : rows[i].idProduct = id}) = 1

\* dbRequest has the outcome of spProductGet for a tenant and a product id.
GetCalled ==
  /\ routine = "spProductGet"
  /\ parameters.idAccount # NULL
  /\ parameters.idProduct # NULL

\* The flavors and sizes of the tenant that are not deleted and enabled for
\* the product of the call.
EnabledFlavors ==
  {flv.idFlavor : flv \in
     {f \in flavor :
        /\ f.idAccount = Val(parameters.idAccount)
        /\ ~f.deleted
        /\ \E prdFlv \in productFlavor :
             /\ prdFlv.idAccount = f.idAccount
             /\ prdFlv.idProduct = Val(parameters.idProduct)
             /\ prdFlv.idFlavor = f.idFlavor
             /\ prdFlv.available}}

EnabledSizes ==
  {siz.idSize : siz \in
     {z \in size :
        /\ z.idAccount = Val(parameters.idAccount)
        /\ ~z.deleted
        /\ \E prdSiz \in productSize :
             /\ prdSiz.idAccount = z.idAccount
             /\ prdSiz.idProduct = Val(parameters.idProduct)
             /\ prdSiz.idSize = z.idSize
             /\ prdSiz.available}}

\* C22: spProductGet fails with productDoesntExist exactly when the tenant has
\* no product of the id that is not deleted; otherwise it returns its six
\* record sets, empty or not, the flavors being the flavors of the tenant that
\* are not deleted and enabled for the product, each once, and the sizes
\* likewise.
C22_ProductGet ==
  GetCalled =>
    LET exists == \E prd \in product :
                    /\ prd.idAccount = Val(parameters.idAccount)
                    /\ prd.idProduct = Val(parameters.idProduct)
                    /\ ~prd.deleted
    IN  /\ ~exists => result.thrown /\ result.message = "productDoesntExist"
        /\ exists =>
             /\ ~result.thrown
             /\ Len(result.recordsets) = 6
             /\ Len(result.recordsets[1]) = 1
             /\ {result.recordsets[3][i].idFlavor :
                   i \in 1..Len(result.recordsets[3])} = EnabledFlavors
             /\ Len(result.recordsets[3]) = Cardinality(EnabledFlavors)
             /\ {result.recordsets[4][i].idSize :
                   i \in 1..Len(result.recordsets[4])} = EnabledSizes
             /\ Len(result.recordsets[4]) = Cardinality(EnabledSizes)

\* The product with two images, no size and no review, enabled for a flavor,
\* a disabled one, a deleted one and one of another account.
C22_Witness ==
  /\ GetCalled
  /\ parameters.idProduct = {12}
  /\ ~result.thrown
  /\ Len(result.recordsets[2]) = 2
  /\ Len(result.recordsets[3]) = 1
  /\ Len(result.recordsets[4]) = 0
  /\ Len(result.recordsets[5]) = 0
  /\ Cardinality({prdFlv \in productFlavor : prdFlv.idProduct = 12}) = 4

\* ------------------------------------------------- claims on the sessions

\* The cart rows of session s among carts, and the cartItem rows of those.
SessionCarts(s, carts) == {crt \in carts : crt.sessionId = s}

SessionItems(s, carts, items) ==
  {crtItm \in items : \E crt \in SessionCarts(s, carts) : crt.idCart = crtItm.idCart}

\* What the rows of a session say, without the identity values.
Content(s, carts, items) ==
  {[idProduct |-> crtItm.idProduct, idFlavor |-> crtItm.idFlavor,
    idSize |-> crtItm.idSize, quantity |-> crtItm.quantity,
    unitPrice |-> crtItm.unitPrice, totalPrice |-> crtItm.totalPrice,
    observations |-> crtItm.observations] : crtItm \in SessionItems(s, carts, items)}

\* What a call with parameters r that runs alone makes of the content of its
\* session, for a product and a size with a price.
Alone(content, r) ==
  LET old == {o \in content : /\ o.idProduct = r.idProduct
                              /\ o.idFlavor = r.idFlavor
                              /\ o.idSize = r.idSize}
      price == CHOOSE v \in {Val(UnitPriceOf(pair[1], pair[2])) :
                               pair \in PriceRows(r)} : TRUE
  IN  IF ValidationError(r) # NoError THEN content
      ELSE IF old = {}
        THEN content \cup
               {[idProduct |-> r.idProduct, idFlavor |-> r.idFlavor,
                 idSize |-> r.idSize, quantity |-> r.quantity, unitPrice |-> price,
                 totalPrice |-> price * r.quantity, observations |-> r.observations]}
      ELSE {IF o \in old /\ o.quantity + r.quantity <= 10
              THEN [o EXCEPT !.quantity = o.quantity + r.quantity,
                             !.totalPrice = price * (o.quantity + r.quantity),
                             !.observations = COALESCE(r.observations, o.observations)]
              ELSE o : o \in content}

\* The whole procedure as one step: the tables a call with parameters r that
\* runs alone on tables t leaves, identity values included.  A rollback does
\* not give an identity value back.
SeqCall(t, r) ==
  LET crts == {crt \in t.cart : crt.idAccount = r.idAccount /\ crt.sessionId = r.sessionId}
      t1 == IF crts = {}
              THEN [t EXCEPT !.identCart = @ + 1,
                             !.cart = @ \cup {[idCart |-> t.identCart + 1,
                                               idAccount |-> r.idAccount,
                                               sessionId |-> r.sessionId]}]
              ELSE t
      crt == CHOOSE row \in t1.cart :
               row.idAccount = r.idAccount /\ row.sessionId = r.sessionId
      price == IF PriceRows(r) = {} THEN NULL
               ELSE CHOOSE v \in {UnitPriceOf(pair[1], pair[2]) : pair \in PriceRows(r)} : TRUE
      old == {o \in t1.cartItem : /\ o.idAccount = r.idAccount
                                  /\ o.idCart = crt.idCart
                                  /\ o.idProduct = r.idProduct
                                  /\ o.idFlavor = r.idFlavor
                                  /\ o.idSize = r.idSize}
      o == CHOOSE row \in old : TRUE
      failed == [t EXCEPT !.identCart = t1.identCart]
  IN  IF ValidationError(r) # NoError THEN t
      ELSE IF old = {}
        THEN IF IsNull(price) THEN failed
             ELSE [t1 EXCEPT !.identCartItem = @ + 1,
                             !.cartItem = @ \cup
                               {[idCartItem |-> t.identCartItem + 1,
                                 idAccount |-> r.idAccount,
                                 idCart |-> crt.idCart,
                                 idProduct |-> r.idProduct,
                                 idFlavor |-> r.idFlavor,
                                 idSize |-> r.idSize,
                                 quantity |-> r.quantity,
                                 unitPrice |-> Val(price),
                                 totalPrice |-> Val(price) * r.quantity,
                                 observations |-> r.observations]}]
      ELSE IF ExceedsMaximum(o.quantity + r.quantity) \/ IsNull(price) THEN failed
      ELSE [t1 EXCEPT !.cartItem =
              (@ \ {o}) \cup {Merged(o, o.quantity + r.quantity,
                                     Val(price) * (o.quantity + r.quantity),
                                     r.observations)}]

\* A call that runs alone does what SeqCall says.
SeqCallIsTheProcedure ==
  \A c \in Conns : Done(c) => Tables = SeqCall(before[c], arg[c])

\* The tables that up to n calls, one after the other, leave.
RECURSIVE SeqStates(_)
SeqStates(n) ==
  IF n = 0 THEN {NoTables}
  ELSE LET s == SeqStates(n - 1)
       IN  s \cup {SeqCall(t, r) : t \in s, r \in SessionRequests}

OwnRowsOnly(c) ==
  LET own == SessionCarts(arg[c].sessionId, cart)
  IN  /\ \A id \in idCart[c] : \E crt \in own : crt.idCart = id
      /\ \A id \in idCartItem[c] \cup undo[c].itemIns :
           \A crtItm \in cartItem :
             crtItm.idCartItem = id => \E crt \in own : crt.idCart = crtItm.idCart
      /\ \A id \in undo[c].cartIns : \E crt \in own : crt.idCart = id
      /\ \A o \in undo[c].itemOld : \E crt \in own : crt.idCart = o.idCart

\* No statement of connection c waits for a row another connection has
\* written.
NeverWaits(c) ==
  /\ pc[c] = "selectCart" =>
       \A crt \in CartsOf(arg[c]) : crt.idCart \notin LockedCarts(c)
  /\ pc[c] = "selectItem" =>
       \A crtItm \in ItemsOf(arg[c], idCart[c]) : crtItm.idCartItem \notin LockedItems(c)
  /\ pc[c] \in {"merge", "result"} => Val(idCartItem[c]) \notin LockedItems(c)

MergedInto(c, old) ==
  /\ Succeeded(c)
  /\ old \in TupleItems(TupleOf(arg[c]), before[c].cart, before[c].cartItem)

\* C24: after a call that has merged, the row has the observations of the
\* call when the call supplied observations, and the observations it had
\* when the call supplied NULL.
C24_ObservationsReplacedOnlyIfSupplied ==
  \A c \in Conns :
    \A old \in before[c].cartItem :
      MergedInto(c, old) =>
        \A crtItm \in cartItem :
          crtItm.idCartItem = old.idCartItem =>
            /\ arg[c].observations = NULL => crtItm.observations = old.observations
            /\ arg[c].observations # NULL => crtItm.observations = arg[c].observations

\* A row with observations "no nuts" has been merged into by a call with
\* observations "no sugar".
C24_Witness ==
  \E old \in before[SeqConn].cartItem :
    /\ MergedInto(SeqConn, old)
    /\ old.observations = {"no nuts"}
    /\ arg[SeqConn].observations = {"no sugar"}
    /\ \E crtItm \in cartItem :
         crtItm.idCartItem = old.idCartItem /\ crtItm.observations = {"no sugar"}

\* C26: two calls that both began when their tuple had row old with quantity e
\* and both ended in success have left the row with quantity e + q1 + q2,
\* which is at most 10.
C26_NoLostUpdate ==
  \A old \in before["c1"].cartItem \cap before["c2"].cartItem :
    (MergedInto("c1", old) /\ MergedInto("c2", old)) =>
      /\ old.quantity + arg["c1"].quantity + arg["c2"].quantity <= MaxQuantity
      /\ \E crtItm \in cartItem :
           /\ crtItm.idCartItem = old.idCartItem
           /\ crtItm.quantity = old.quantity + arg["c1"].quantity + arg["c2"].quantity

\* C28: after a call that has merged, the row has the unitPrice it had, and
\* the unitPrice the call returns is that unitPrice.
C28_MergeKeepsUnitPrice ==
  \A c \in Conns :
    \A old \in before[c].cartItem :
      MergedInto(c, old) =>
        /\ \A crtItm \in cartItem :
             crtItm.idCartItem = old.idCartItem => crtItm.unitPrice = old.unitPrice
        /\ Val(ret[c].row).idCartItem = old.idCartItem
        /\ Val(ret[c].row).unitPrice = old.unitPrice

\* A call has merged into a row after the price of its product changed.
C28_Witness ==
  \E old \in before[SeqConn].cartItem :
    /\ MergedInto(SeqConn, old)
    /\ changes > 0
    /\ \A pair \in PriceRows(arg[SeqConn]) :
         UnitPriceOf(pair[1], pair[2]) # {old.unitPrice}
    /\ Val(ret[SeqConn].row).unitPrice = old.unitPrice
    /\ Val(ret[SeqConn].row).quantity > old.quantity

\* C29: with nothing but calls of spCartItemAdd the product, size, flavor,
\* productFlavor and productSize rows stay the rows they were.
C29_CatalogUntouched ==
  /\ product = InitProduct
  /\ size = InitSize
  /\ flavor = InitFlavor
  /\ productFlavor = InitProductFlavor
  /\ productSize = InitProductSize

\* A call has inserted a cart and an item and a second call has merged.
C29_Witness ==
  \E old \in before[SeqConn].cartItem :
    /\ MergedInto(SeqConn, old)
    /\ cart # {}
    /\ \E crtItm \in cartItem :
         crtItm.idCartItem = old.idCartItem /\ crtItm.quantity > old.quantity
    /\ \E prd \in product : prd.idProduct = arg[SeqConn].idProduct /\ prd.stock > 0

\* C30: a call that has passed the validations has a unit price once its
\* price SELECT has run, and ends in success or in the domain error
\* quantityExceedsMaximum.
C30_DefinedPriceOrDomainError ==
  \A c \in Conns :
    /\ pc[c] \in {"selectItem", "merge", "insertItem", "commit", "result"} =>
         unitPrice[c] # NULL
    /\ (Done(c) /\ ValidationError(arg[c]) = NoError) =>
         \/ ret[c].number = 0
         \/ ret[c].number = DomainError /\ ret[c].message = "quantityExceedsMaximum"

\* ------------------------------------------- claims on the related products

\* GET /product/:id/related with criteria sabor for an existing reference has
\* been answered, and dbRequest did not fail outside the procedure.
SaborAnswered ==
  /\ Answered
  /\ req.handler = "related"
  /\ req.issues = {}
  /\ req.params.criteria = "sabor"
  /\ ReferenceExists(req.params)
  /\ routine = "spProductRelated"
  /\ result.message # "connectionLost"

\* The procedure has raised no error and returned no related product.
SaborYieldsNothing ==
  /\ ~result.thrown
  /\ \A i \in 1..Len(result.recordsets) : Len(result.recordsets[i]) = 0

\* C25: for an existing reference and criteria sabor the procedure raises no
\* error and returns no related product, and the request is answered with
\* success and an empty array of products.
C25_SaborIsEmptyArray ==
  SaborAnswered =>
    /\ SaborYieldsNothing
    /\ res.status = 200
    /\ res.data = {<<>>}

\* ------------------------------------------------- claims on the tenant

\* The request without the keys the schema of its handler does not know.
KnownPart(h, input) == [k \in DOMAIN input \cap SchemaKeys(h) |-> input[k]]

\* C27: every call of a routine has the idAccount of the credential, 1, and a
\* request makes the call it makes without its idAccount, idUser and other
\* keys its schema does not know.
C27_TenantIsTheCredential ==
  /\ routine # "" => parameters.idAccount = {1}
  /\ pc[SeqConn] # "idle" => arg[SeqConn].idAccount = 1
  /\ (req.stage # "idle" /\ req.issues = {}) =>
       /\ req.params = Validated(req.handler, KnownPart(req.handler, req.input))
       /\ Issues(req.handler, KnownPart(req.handler, req.input)) = {}

\* A request with idAccount 2 and idUser 7 in its body has added an item to
\* the cart of tenant 1.
C27_Witness ==
  /\ Succeeded(SeqConn)
  /\ req.handler = "addItem"
  /\ DOMAIN req.input = SchemaKeys("addItem") \cup {"idAccount", "idUser"}
  /\ req.input.idAccount = Num(2)
  /\ arg[SeqConn].idAccount = 1
  /\ \E crtItm \in cartItem : crtItm.idAccount = 1

====
